---- MODULE Spec2Model ----
(***************************************************************************)
(* A model of mudler/skillserver: the resource-path guard, the skill       *)
(* catalog over a directory tree, the archive import, and the git mirror   *)
(* syncer with its lock-protected repository list.                         *)
(***************************************************************************)
EXTENDS Integers, Sequences, FiniteSets, TLC

VARIABLES
    path,       \* PathGuard: the resource path under validation (characters)
    verdict,    \* PathGuard: result of ValidateResourcePath for path
    fs,         \* the file tree: absolute path -> node
    gitRepos,   \* FileSystemManager.gitRepos: enabled mirror directory names
    repos,      \* GitSyncer.repos: the in-memory mirror URL list
    index,      \* Searcher.index: the document ids held by the search index
    last,       \* the request that was served last, and its outcome
    mu,         \* GitSyncer.mu: the writer and the readers that hold it
    task,       \* per goroutine: the GitSyncer call it runs and where it is
    ctx,        \* GitSyncer.ctx: "live", or "done" once cancel has been called
    life,       \* per goroutine: where it is in Start, Stop or periodicSync
    listed,     \* the skills the last ListSkills call returned
    got         \* the last identifier resolved, and what the operation returned

vars == <<path, verdict, fs, gitRepos, repos, index, last, mu, task, ctx, life, listed, got>>

-----------------------------------------------------------------------------
(* Bounds                                                                  *)

MaxAtoms == 5
MaxEntries == 3
\* requests served in one behaviour of the REST handlers
MaxRequests == 2
\* GitSyncer calls made in one behaviour, all goroutines together
MaxCalls == 3

-----------------------------------------------------------------------------
(* Strings.  A string is a sequence of one-character strings.              *)

Concat(ss) ==
    LET RECURSIVE Cat(_)
        Cat(k) == IF k > Len(ss) THEN <<>> ELSE ss[k] \o Cat(k + 1)
    IN Cat(1)

\* strings.HasPrefix
HasPrefix(s, prefix) ==
    /\ Len(prefix) <= Len(s)
    /\ SubSeq(s, 1, Len(prefix)) = prefix

\* strings.HasSuffix
HasSuffix(s, suffix) ==
    /\ Len(suffix) <= Len(s)
    /\ SubSeq(s, Len(s) - Len(suffix) + 1, Len(s)) = suffix

\* strings.Contains
Contains(s, sub) ==
    \E i \in 1..(Len(s) - Len(sub) + 1) : SubSeq(s, i, i + Len(sub) - 1) = sub

\* strings.Split(s, sep) for a one-character separator
Split(s, sep) ==
    LET RECURSIVE Sp(_, _)
        Sp(k, cur) ==
            IF k > Len(s) THEN <<cur>>
            ELSE IF s[k] = sep THEN <<cur>> \o Sp(k + 1, <<>>)
            ELSE Sp(k + 1, Append(cur, s[k]))
    IN Sp(1, <<>>)

Separator == "/"

\* filepath.ToSlash: replaces the platform separator by "/"
ToSlash(s) == [k \in 1..Len(s) |-> IF s[k] = Separator THEN "/" ELSE s[k]]

\* filepath.IsAbs
IsAbs(s) == Len(s) > 0 /\ s[1] = "/"

-----------------------------------------------------------------------------
(* PathGuard                                                               *)

ScriptsPrefix    == <<"s","c","r","i","p","t","s","/">>
ReferencesPrefix == <<"r","e","f","e","r","e","n","c","e","s","/">>
AssetsPrefix     == <<"a","s","s","e","t","s","/">>

validPrefixes == <<ScriptsPrefix, ReferencesPrefix, AssetsPrefix>>

HasValidPrefix(p) == \E k \in 1..Len(validPrefixes) : HasPrefix(p, validPrefixes[k])

\* A path segment equal to ".."
HasDotDotSegment(p) == \E k \in 1..Len(Split(p, "/")) : Split(p, "/")[k] = <<".", ".">>

\* The traversal check of ValidateResourcePath: strings.Contains(path, "..")
HasTraversal(p) == Contains(p, <<".", ".">>)

ValidateResourcePath(p) ==
    LET q == ToSlash(p) IN
    IF ~HasValidPrefix(q) THEN "badPrefix"
    ELSE IF HasTraversal(q) THEN "traversal"
    ELSE IF IsAbs(q) THEN "absolute"
    ELSE "ok"

PathAtoms ==
    { <<"s","c","r","i","p","t","s">>,
      <<"r","e","f","e","r","e","n","c","e","s">>,
      <<"a","s","s","e","t","s">>,
      <<"/">>, <<".">>, <<"a">>, <<"\\">> }

AtomSeqs == UNION { [1..n -> PathAtoms] : n \in 0..MaxAtoms }

Paths == { Concat(a) : a \in AtomSeqs }

-----------------------------------------------------------------------------
(* Names.  Directory entries, skill names and identifier segments are      *)
(* strings of a fixed universe; Chars gives the characters of each.        *)

Chars(s) ==
    CASE s = ""         -> <<>>
      [] s = "."        -> <<".">>
      [] s = ".."       -> <<".", ".">>
      [] s = "demo"     -> <<"d","e","m","o">>
      [] s = "repo"     -> <<"r","e","p","o">>
      [] s = "tool"     -> <<"t","o","o","l">>
      [] s = "sub"      -> <<"s","u","b">>
      [] s = "link"     -> <<"l","i","n","k">>
      [] s = "Demo"     -> <<"D","e","m","o">>
      [] s = "a--b"     -> <<"a","-","-","b">>
      [] s = "-a"       -> <<"-","a">>
      [] s = "a..b"     -> <<"a",".",".","b">>
      [] s = "SKILL.md" -> <<"S","K","I","L","L",".","m","d">>
      [] s = "xSKILL.md" -> <<"x","S","K","I","L","L",".","m","d">>
      [] s = "scripts"  -> <<"s","c","r","i","p","t","s">>
      [] s = "x.txt"    -> <<"x",".","t","x","t">>
      [] s = "x.css"    -> <<"x",".","c","s","s">>
      [] s = "x.png"    -> <<"x",".","p","n","g">>
      [] s = "data"     -> <<"d","a","t","a">>
      [] s = "assets"   -> <<"a","s","s","e","t","s">>
      [] s = "skills"   -> <<"s","k","i","l","l","s">>
      [] s = ".git"     -> <<".","g","i","t">>
      [] s = "https://example.com/org/repo.git" ->
            <<"h","t","t","p","s",":","/","/","e","x","a","m","p","l","e",".","c","o","m","/","o","r","g","/","r","e","p","o",".","g","i","t">>
      [] s = "https://example.com/org/tool" ->
            <<"h","t","t","p","s",":","/","/","e","x","a","m","p","l","e",".","c","o","m","/","o","r","g","/","t","o","o","l">>
      [] s = "git@example.com:org/demo.git" ->
            <<"g","i","t","@","e","x","a","m","p","l","e",".","c","o","m",":","o","r","g","/","d","e","m","o",".","g","i","t">>
      [] s = "https://example.com/org/Demo.git" ->
            <<"h","t","t","p","s",":","/","/","e","x","a","m","p","l","e",".","c","o","m","/","o","r","g","/","D","e","m","o",".","g","i","t">>
      [] s = "https://example.com/team/repo.git" ->
            <<"h","t","t","p","s",":","/","/","e","x","a","m","p","l","e",".","c","o","m","/","t","e","a","m","/","r","e","p","o",".","g","i","t">>

\* The characters of the universe in byte order
Ascii == <<"-", ".", "/", "0", "1", ":", "D", "I", "K", "L", "S", "\\",
           "a", "b", "c", "d", "e", "g", "h", "i", "k", "l", "m", "n", "o", "p",
           "r", "s", "t", "u", "x">>

Code(c) == CHOOSE k \in 1..Len(Ascii) : Ascii[k] = c

\* Go's string comparison: bytewise lexicographic
LessChars(a, b) ==
    LET RECURSIVE Lt(_)
        Lt(k) ==
            IF k > Len(b) THEN FALSE
            ELSE IF k > Len(a) THEN TRUE
            ELSE IF a[k] = b[k] THEN Lt(k + 1)
            ELSE Code(a[k]) < Code(b[k])
    IN Lt(1)

LessName(a, b) == LessChars(Chars(a), Chars(b))

\* The characters of a "/"-joined sequence of segments
JoinChars(segs) ==
    LET RECURSIVE J(_)
        J(k) == IF k > Len(segs) THEN <<>>
                ELSE IF k = 1 THEN Chars(segs[1]) \o J(2)
                ELSE <<"/">> \o Chars(segs[k]) \o J(k + 1)
    IN J(1)

IsLowerAlnum(c) == c \in {"a","b","c","d","e","g","h","i","k","l","m","n","o","p","r","s","t","u","x","0","1"}

MaxNameLen == 64

\* skillNamePattern ^[a-z0-9]([a-z0-9-]*[a-z0-9])?$
MatchesSkillNamePattern(cs) ==
    /\ Len(cs) >= 1
    /\ IsLowerAlnum(cs[1])
    /\ IsLowerAlnum(cs[Len(cs)])
    /\ \A k \in 1..Len(cs) : IsLowerAlnum(cs[k]) \/ cs[k] = "-"

\* ValidateSkillName, on the characters of the name
ValidateSkillName(cs) ==
    /\ Len(cs) # 0
    /\ Len(cs) <= MaxNameLen
    /\ ~(HasPrefix(cs, <<"-">>) \/ HasSuffix(cs, <<"-">>))
    /\ ~Contains(cs, <<"-", "-">>)
    /\ MatchesSkillNamePattern(cs)

-----------------------------------------------------------------------------
(* The file tree.  A path is the sequence of its segments from "/"; fs     *)
(* maps every existing path to a directory node or a file node with data.  *)

skillsDir == <<"skills">>

DirNode == [type |-> "dir", data |-> ""]
FileNode(d) == [type |-> "file", data |-> d]

Exists(f, p) == p \in DOMAIN f
IsDirAt(f, p) == Exists(f, p) /\ f[p].type = "dir"
IsFileAt(f, p) == Exists(f, p) /\ f[p].type = "file"

IsPrefixPath(d, p) == Len(d) <= Len(p) /\ SubSeq(p, 1, Len(d)) = d

\* strict descendants of d, and d itself
Under(d, p) == IsPrefixPath(d, p)

Base(p) == IF Len(p) = 0 THEN "/" ELSE p[Len(p)]
Dir(p) == IF Len(p) = 0 THEN p ELSE SubSeq(p, 1, Len(p) - 1)

\* filepath.Clean on an absolute path given by its segments
Clean(segs) ==
    LET RECURSIVE C(_, _)
        C(k, acc) ==
            IF k > Len(segs) THEN acc
            ELSE IF segs[k] \in {"", "."} THEN C(k + 1, acc)
            ELSE IF segs[k] = ".." THEN C(k + 1, Dir(acc))
            ELSE C(k + 1, Append(acc, segs[k]))
    IN C(1, <<>>)

\* filepath.Join(base, segments...)
Join(base, segs) == Clean(base \o segs)

\* os.Stat succeeds: every proper ancestor must be a directory
Stat(f, p) == Exists(f, p)

\* os.MkdirAll: fails when a path component is a file
MkdirAll(f, p) ==
    IF \E k \in 1..Len(p) : IsFileAt(f, SubSeq(p, 1, k))
    THEN [ok |-> FALSE, fs |-> f]
    ELSE [ok |-> TRUE,
          fs |-> [q \in DOMAIN f \cup { SubSeq(p, 1, k) : k \in 1..Len(p) } |->
                    IF q \in DOMAIN f THEN f[q] ELSE DirNode]]

\* os.WriteFile / os.OpenFile(O_CREATE|O_TRUNC): the parent must be a
\* directory and the target must not be one
WriteFile(f, p, d) ==
    IF Len(p) = 0 \/ ~IsDirAt(f, Dir(p)) \/ IsDirAt(f, p)
    THEN [ok |-> FALSE, fs |-> f]
    ELSE [ok |-> TRUE,
          fs |-> [q \in DOMAIN f \cup {p} |-> IF q = p THEN FileNode(d) ELSE f[q]]]

\* os.RemoveAll: removes p and everything below it; no error if absent
RemoveAll(f, p) == [q \in { r \in DOMAIN f : ~Under(p, r) } |-> f[q]]

\* os.Remove: a file or an empty directory
Remove(f, p) ==
    IF ~Exists(f, p) \/ (\E q \in DOMAIN f : q # p /\ Under(p, q))
    THEN [ok |-> FALSE, fs |-> f]
    ELSE [ok |-> TRUE, fs |-> [q \in DOMAIN f \ {p} |-> f[q]]]

\* os.ReadFile
ReadFile(f, p) ==
    IF IsFileAt(f, p) THEN [ok |-> TRUE, data |-> f[p].data]
    ELSE [ok |-> FALSE, data |-> ""]

\* a set of names as the sequence sorted by filename
SortNames(S) ==
    LET RECURSIVE Srt(_)
        Srt(T) == IF T = {} THEN <<>>
                  ELSE LET m == CHOOSE x \in T : \A y \in T \ {x} : LessName(x, y)
                       IN <<m>> \o Srt(T \ {m})
    IN Srt(S)

\* os.ReadDir: the entries of a directory, sorted by filename
ReadDir(f, d) == SortNames({ p[Len(p)] : p \in { q \in DOMAIN f : Len(q) = Len(d) + 1 /\ Under(d, q) } })

-----------------------------------------------------------------------------
(* The catalog: FileSystemManager over the tree and the enabled mirrors.   *)
(* An identifier is held as the sequence of its "/"-separated segments.    *)

ManifestName == "SKILL.md"
Garbage == "#garbage"
\* the data of a file whose copy was cut short
Partial == "#partial"

\* ParseFrontmatter on a manifest's data: the declared name, when the text
\* decodes and the name is valid
ParseFrontmatter(d) ==
    IF d \in {Garbage, Partial} THEN [ok |-> FALSE, name |-> ""]
    ELSE IF ~ValidateSkillName(Chars(d)) THEN [ok |-> FALSE, name |-> ""]
    ELSE [ok |-> TRUE, name |-> d]

SeqContains(s, x) == \E k \in 1..Len(s) : s[k] = x

\* isGitRepoPath: the first segment below skillsDir is an enabled mirror name
isGitRepoPath(g, p) ==
    LET rel == SubSeq(p, Len(skillsDir) + 1, Len(p))
    IN Len(rel) > 0 /\ SeqContains(g, rel[1])

\* findSkillDirs: the directories below root that hold a SKILL.md, as paths
\* relative to basePath, in the order of the recursive walk.
\* findSkillDirsFrom is the loop over the entries of root, from entry k on.
RECURSIVE findSkillDirsFrom(_, _, _, _)
findSkillDirsFrom(f, root, basePath, k) ==
    IF k > Len(ReadDir(f, root)) THEN <<>>
    ELSE LET entryPath == Append(root, ReadDir(f, root)[k]) IN
         IF ~IsDirAt(f, entryPath) THEN findSkillDirsFrom(f, root, basePath, k + 1)
         ELSE (IF Stat(f, Append(entryPath, ManifestName))
               THEN <<SubSeq(entryPath, Len(basePath) + 1, Len(entryPath))>>
               ELSE <<>>)
              \o findSkillDirsFrom(f, entryPath, basePath, 1)
              \o findSkillDirsFrom(f, root, basePath, k + 1)

findSkillDirs(f, root, basePath) == findSkillDirsFrom(f, root, basePath, 1)

\* readSkillFromPath: reads and checks the manifest of the directory
readSkillFromPath(f, skillPath, skillName, isReadOnly) ==
    LET content == ReadFile(f, Append(skillPath, ManifestName))
        parsed == ParseFrontmatter(content.data)
    IN IF ~content.ok THEN [ok |-> FALSE, err |-> "read"]
       ELSE IF ~parsed.ok THEN [ok |-> FALSE, err |-> "parse"]
       ELSE IF parsed.name # Base(skillPath) THEN [ok |-> FALSE, err |-> "mismatch"]
       ELSE [ok |-> TRUE, err |-> "", ID |-> skillName, Name |-> skillName,
             Metadata |-> parsed.name,
             SourcePath |-> skillPath, ReadOnly |-> isReadOnly]

\* the body of the loop of ListSkills: the skill of one directory, or
\* nothing when its mirror is disabled or its manifest cannot be read
ListEntry(f, g, skillDir) ==
    LET skillPath == skillsDir \o skillDir
        isFromGitRepo == Len(skillDir) > 1
        isReadOnly == isGitRepoPath(g, skillPath)
        skillName == IF isReadOnly
                     THEN (IF Len(skillDir) >= 2
                           THEN <<skillDir[1], skillDir[Len(skillDir)]>>
                           ELSE skillDir)
                     ELSE <<Base(skillDir)>>
    IN IF isFromGitRepo /\ ~SeqContains(g, skillDir[1]) THEN <<>>
       ELSE SelectSeq(<<readSkillFromPath(f, skillPath, skillName, isReadOnly)>>,
                      LAMBDA skill : skill.ok)

\* ListSkills: every readable skill of the tree, skipping disabled mirrors
RECURSIVE ListEach(_, _, _)
ListEach(f, g, skillDirs) ==
    IF skillDirs = <<>> THEN <<>>
    ELSE ListEntry(f, g, Head(skillDirs)) \o ListEach(f, g, Tail(skillDirs))

ListSkills(f, g) == ListEach(f, g, findSkillDirs(f, skillsDir, skillsDir))

\* filepath.Walk restricted to directories: the directory itself first,
\* then the entries of each directory in filename order.  pending holds
\* the paths still to visit, the next one first.
RECURSIVE WalkFrom(_, _)
WalkFrom(f, pending) ==
    IF pending = <<>> THEN <<>>
    ELSE LET d == Head(pending)
             entries == ReadDir(f, d)
         IN IF ~IsDirAt(f, d) THEN WalkFrom(f, Tail(pending))
            ELSE <<d>> \o WalkFrom(f, [k \in 1..Len(entries) |-> Append(d, entries[k])]
                                       \o Tail(pending))

WalkDirs(f, d) == WalkFrom(f, <<d>>)

\* the callback of the walk of findSkillDirByName: the first walked
\* directory named targetName that holds a SKILL.md stops the walk
RECURSIVE FirstMatch(_, _, _)
FirstMatch(f, walk, targetName) ==
    IF walk = <<>> THEN [ok |-> FALSE, path |-> <<>>]
    ELSE IF Stat(f, Append(Head(walk), ManifestName)) /\ Base(Head(walk)) = targetName
    THEN [ok |-> TRUE, path |-> Head(walk)]
    ELSE FirstMatch(f, Tail(walk), targetName)

\* A search that looks only at the direct subdirectory of that name
findSkillDirByNameShallow(f, basePath, targetName) ==
    FirstMatch(f, <<Append(basePath, targetName)>>, targetName)

findSkillDirByName(f, basePath, targetName) ==
    FirstMatch(f, WalkDirs(f, basePath), targetName)

NotFound == [ok |-> FALSE, err |-> "notfound"]

\* the mirror branch of ReadSkill once the directory has been searched
ReadFound(f, found, name) ==
    IF ~found.ok THEN NotFound ELSE readSkillFromPath(f, found.path, name, TRUE)

\* ReadSkill by identifier (repoName/skillName or a local name)
ReadSkill(f, name) ==
    IF Len(name) = 2
    THEN IF ~Stat(f, Join(skillsDir, <<name[1]>>)) THEN NotFound
         ELSE ReadFound(f, findSkillDirByName(f, Join(skillsDir, <<name[1]>>), name[2]), name)
    ELSE IF ~Stat(f, Append(Join(skillsDir, name), ManifestName)) THEN NotFound
         ELSE readSkillFromPath(f, Join(skillsDir, name), name, FALSE)

\* The identifiers of a list of skills
IDs(skills) == { skills[k].ID : k \in 1..Len(skills) }

\* An indexer that adds to the old index instead of replacing it
IndexSkillsKeepOld(idx, skills) == idx \cup IDs(skills)

\* Searcher.IndexSkills: drops the old index and indexes each skill under
\* its name, which is its identifier
IndexSkills(idx, skills) == IDs(skills)

\* FileSystemManager.RebuildIndex
RebuildIndex(f, g, idx) == IndexSkills(idx, ListSkills(f, g))

-----------------------------------------------------------------------------
(* Mirror names and ids derived from the URL                               *)

Names == {"", ".", "..", "demo", "repo", "tool", "sub", "link", "scripts", "skills", ".git",
          "Demo"}

\* the name of the universe with the given characters
Str(cs) == CHOOSE n \in Names : Chars(n) = cs

\* strings.TrimSuffix
TrimSuffix(s, suffix) ==
    IF HasSuffix(s, suffix) THEN SubSeq(s, 1, Len(s) - Len(suffix)) ELSE s

\* the text that follows the first occurrence of sep in s
AfterFirst(s, sep) ==
    LET at == CHOOSE i \in 1..(Len(s) - Len(sep) + 1) :
                /\ SubSeq(s, i, i + Len(sep) - 1) = sep
                /\ \A j \in 1..(i - 1) : SubSeq(s, j, j + Len(sep) - 1) # sep
    IN SubSeq(s, at + Len(sep), Len(s))

LastPart(s) == Split(s, "/")[Len(Split(s, "/"))]

\* git.ExtractRepoName / GitSyncer.extractRepoName, on characters
ExtractRepoNameChars(url) ==
    LET name == LastPart(TrimSuffix(url, <<".","g","i","t">>))
    IN IF Contains(name, <<":","/","/">>)
       THEN LastPart(AfterFirst(name, <<":","/","/">>))
       ELSE name

ExtractRepoName(u) == Str(ExtractRepoNameChars(Chars(u)))

ToLowerChar(c) ==
    CASE c = "D" -> "d" [] c = "I" -> "i" [] c = "K" -> "k"
      [] c = "L" -> "l" [] c = "S" -> "s" [] OTHER -> c

\* git.GenerateID: the repository name without hyphens, in lower case
GenerateID(u) ==
    LET name == ExtractRepoNameChars(Chars(u))
        kept == SelectSeq(name, LAMBDA c : c # "-")
    IN [k \in 1..Len(kept) |-> ToLowerChar(kept[k])]

Url1 == "https://example.com/org/repo.git"
Url2 == "https://example.com/org/tool"
Url3 == "git@example.com:org/demo.git"
Urls == {Url1, Url2}
\* a repository whose name has an upper-case letter, a repository of the
\* same name as Url1 under another owner
Url4 == "https://example.com/org/Demo.git"
Url5 == "https://example.com/team/repo.git"

\* the directory names of a URL list, as addGitRepo derives them
RepoNames(rs) == [k \in 1..Len(rs) |-> ExtractRepoName(rs[k])]

\* A removal that takes the newest entry, whatever it is
RemoveNewest(rs, u) == IF rs = <<>> THEN rs ELSE SubSeq(rs, 1, Len(rs) - 1)

\* the list without its first occurrence of u
RemoveFirst(rs, u) ==
    IF ~SeqContains(rs, u) THEN rs
    ELSE LET i == CHOOSE k \in 1..Len(rs) : rs[k] = u /\ \A j \in 1..(k - 1) : rs[j] # u
         IN SubSeq(rs, 1, i - 1) \o SubSeq(rs, i + 1, Len(rs))

-----------------------------------------------------------------------------
(* The git client as the syncer uses it.  A remote holds one of two trees. *)

GitDir == ".git"

\* the working tree a remote delivers, relative to the target directory
RemoteTree(shape, repoName) ==
    IF shape = "flat"
    THEN (<<GitDir>> :> DirNode) @@ (<<"tool">> :> DirNode)
         @@ (<<"tool", ManifestName>> :> FileNode("tool"))
    ELSE (<<GitDir>> :> DirNode) @@ (<<ManifestName>> :> FileNode(repoName))
         @@ (<<"sub">> :> DirNode) @@ (<<"sub", "tool">> :> DirNode)
         @@ (<<"sub", "tool", ManifestName>> :> FileNode("tool"))

Shapes == {"flat", "rooted"}

Tracked(repoName) ==
    UNION { DOMAIN RemoteTree(sh, repoName) : sh \in Shapes } \ {<<GitDir>>}

\* the tree with the remote's working tree placed at targetDir
Checkout(f, targetDir, tree) ==
    [q \in DOMAIN f \cup {targetDir} \cup { targetDir \o r : r \in DOMAIN tree } |->
        IF q = targetDir THEN DirNode
        ELSE IF \E r \in DOMAIN tree : q = targetDir \o r
             THEN tree[SubSeq(q, Len(targetDir) + 1, Len(q))]
        ELSE f[q]]

\* the tree without the tracked files of targetDir
Untrack(f, targetDir, repoName) ==
    [q \in { r \in DOMAIN f : ~\E t \in Tracked(repoName) : Under(targetDir \o t, r) } |-> f[q]]

GitOutcomes == {"updated", "uptodate", "auth", "error"}

\* cloneRepo: git.PlainClone into a directory that does not exist
cloneRepo(f, targetDir, repoName, outcome, shape) ==
    IF outcome \in {"updated", "uptodate"}
    THEN [ok |-> TRUE, err |-> "", fs |-> Checkout(f, targetDir, RemoteTree(shape, repoName))]
    ELSE [ok |-> FALSE, err |-> outcome, fs |-> f]

\* A pull that reports "already up to date" as an error
pullRepoStrict(f, repoDir, repoName, outcome, shape) ==
    IF ~IsDirAt(f, Append(repoDir, GitDir)) THEN [ok |-> FALSE, err |-> "open", fs |-> f]
    ELSE IF outcome = "updated"
    THEN [ok |-> TRUE, err |-> "",
          fs |-> Checkout(Untrack(f, repoDir, repoName), repoDir, RemoteTree(shape, repoName))]
    ELSE [ok |-> FALSE, err |-> outcome, fs |-> f]

\* pullRepo: open the repository, pull; already-up-to-date is no error
pullRepo(f, repoDir, repoName, outcome, shape) ==
    IF ~IsDirAt(f, Append(repoDir, GitDir)) THEN [ok |-> FALSE, err |-> "open", fs |-> f]
    ELSE IF outcome = "uptodate" THEN [ok |-> TRUE, err |-> "", fs |-> f]
    ELSE IF outcome = "updated"
    THEN [ok |-> TRUE, err |-> "",
          fs |-> Checkout(Untrack(f, repoDir, repoName), repoDir, RemoteTree(shape, repoName))]
    ELSE [ok |-> FALSE, err |-> outcome, fs |-> f]

\* syncRepo: clone when the target directory is absent, else pull
syncRepo(f, repoURL, outcome, shape) ==
    LET repoName == ExtractRepoName(repoURL)
        targetDir == Join(skillsDir, <<repoName>>)
    IN IF ~Stat(f, targetDir) THEN cloneRepo(f, targetDir, repoName, outcome, shape)
       ELSE pullRepo(f, targetDir, repoName, outcome, shape)

-----------------------------------------------------------------------------
(* ArchiveCodec: ImportSkill.  An archive is the sequence of its tar       *)
(* entries; an entry name is held as its "/"-separated segments.           *)


TypeDir == "dir"
TypeReg == "reg"
TypeOther == "other"

\* A traversal check that looks at the candidate skill name only
FirstSegmentHasDotDot(name) == Contains(Chars(name[1]), <<".", ".">>)

\* strings.Contains(header.Name, "..") of the first pass
NameHasDotDot(name) == Contains(JoinChars(name), <<".", ".">>)

\* strings.HasSuffix(header.Name, "SKILL.md")
NameIsManifest(name) == HasSuffix(JoinChars(name), Chars(ManifestName))

\* The end of a first pass that skips the check of the destination
ImportScanEndNoStat(f, skillName, hasSkillMd) ==
    IF skillName = "" THEN [ok |-> FALSE, err |-> "noskill", name |-> ""]
    ELSE IF ~hasSkillMd THEN [ok |-> FALSE, err |-> "nomanifest", name |-> skillName]
    ELSE [ok |-> TRUE, err |-> "", name |-> skillName]

\* After the loop of the first pass: a skill name was found, an entry named
\* like a manifest was seen, the destination does not exist yet
ImportScanEnd(f, skillName, hasSkillMd) ==
    IF skillName = "" THEN [ok |-> FALSE, err |-> "noskill", name |-> ""]
    ELSE IF ~hasSkillMd THEN [ok |-> FALSE, err |-> "nomanifest", name |-> skillName]
    ELSE IF Stat(f, Join(skillsDir, <<skillName>>))
    THEN [ok |-> FALSE, err |-> "exists", name |-> skillName]
    ELSE [ok |-> TRUE, err |-> "", name |-> skillName]

\* First pass: the candidate skill name and the validation of every entry
ImportFirstPass(f, archive) ==
    LET RECURSIVE Scan(_, _, _)
        Scan(k, skillName, hasSkillMd) ==
            IF k > Len(archive)
            THEN ImportScanEnd(f, skillName, hasSkillMd)
            ELSE LET header == archive[k]
                     candidate == IF skillName = "" THEN header.name[1] ELSE skillName
                 IN IF skillName = "" /\ ~ValidateSkillName(Chars(candidate))
                    THEN [ok |-> FALSE, err |-> "invalidname", name |-> ""]
                    ELSE IF NameHasDotDot(header.name)
                    THEN [ok |-> FALSE, err |-> "dotdot", name |-> candidate]
                    ELSE Scan(k + 1, candidate, hasSkillMd \/ NameIsManifest(header.name))
    IN Scan(1, "", FALSE)

\* Second pass: extracts entry after entry; failAt names the entry whose
\* content copy meets an I/O error (0: none).  A failure returns at once.
ImportSecondPass(f, archive, skillName, failAt) ==
    LET RECURSIVE Extract(_, _)
        Extract(k, cur) ==
            IF k > Len(archive) THEN [ok |-> TRUE, fs |-> cur]
            ELSE LET header == archive[k]
                     parts == header.name
                     relPath == SubSeq(parts, 2, Len(parts))
                     targetPath == Join(skillsDir, <<skillName>> \o relPath)
                 IN IF Len(parts) < 2 THEN Extract(k + 1, cur)
                    ELSE IF Contains(JoinChars(relPath), <<".", ".">>) THEN [ok |-> FALSE, fs |-> cur]
                    ELSE IF ~IsPrefixPath(skillsDir, targetPath) THEN [ok |-> FALSE, fs |-> cur]
                    ELSE IF header.type = TypeDir
                    THEN LET made == MkdirAll(cur, targetPath)
                         IN IF failAt = k \/ ~made.ok THEN [ok |-> FALSE, fs |-> cur]
                            ELSE Extract(k + 1, made.fs)
                    ELSE IF header.type = TypeReg
                    THEN LET made == MkdirAll(cur, Dir(targetPath))
                             full == WriteFile(made.fs, targetPath, header.data)
                             torn == WriteFile(made.fs, targetPath, Partial)
                         IN IF ~made.ok THEN [ok |-> FALSE, fs |-> cur]
                            ELSE IF ~full.ok THEN [ok |-> FALSE, fs |-> made.fs]
                            ELSE IF failAt = k THEN [ok |-> FALSE, fs |-> torn.fs]
                            ELSE Extract(k + 1, full.fs)
                    ELSE Extract(k + 1, cur)
    IN Extract(1, f)

\* the end of ImportSkill: the extracted manifest must parse and declare
\* the directory name, else the extracted directory is removed
ImportVerify(extracted, skillName, content) ==
    IF ~content.ok
    THEN [ok |-> FALSE, err |-> "read", name |-> "",
          fs |-> RemoveAll(extracted, Join(skillsDir, <<skillName>>))]
    ELSE IF ~ParseFrontmatter(content.data).ok
    THEN [ok |-> FALSE, err |-> "parse", name |-> "",
          fs |-> RemoveAll(extracted, Join(skillsDir, <<skillName>>))]
    ELSE IF ParseFrontmatter(content.data).name # skillName
    THEN [ok |-> FALSE, err |-> "mismatch", name |-> "",
          fs |-> RemoveAll(extracted, Join(skillsDir, <<skillName>>))]
    ELSE [ok |-> TRUE, err |-> "", name |-> skillName, fs |-> extracted]

\* ImportSkill after the second pass: an extraction error returns at once
ImportExtracted(skillName, second) ==
    IF ~second.ok THEN [ok |-> FALSE, err |-> "extract", name |-> "", fs |-> second.fs]
    ELSE ImportVerify(second.fs, skillName,
                      ReadFile(second.fs, Append(Join(skillsDir, <<skillName>>), ManifestName)))

\* ImportSkill after the first pass
ImportScanned(f, archive, failAt, first) ==
    IF ~first.ok THEN [ok |-> FALSE, err |-> first.err, name |-> "", fs |-> f]
    ELSE ImportExtracted(first.name, ImportSecondPass(f, archive, first.name, failAt))

\* ImportSkill: both passes, then the check of the extracted manifest
ImportSkill(f, archive, failAt) ==
    ImportScanned(f, archive, failAt, ImportFirstPass(f, archive))

-----------------------------------------------------------------------------
(* Idle values of the variable groups a specification does not use         *)

EmptyTree == [q \in {skillsDir} |-> DirNode]
\* the last request served and its reply; n counts the requests served
NoRequest == [op |-> "none", name |-> <<>>, input |-> <<>>, status |-> "none", n |-> 0]

PathIdle == path = <<>> /\ verdict = "unchecked"
CatalogIdle == /\ fs = EmptyTree /\ gitRepos = <<>> /\ repos = <<>>
               /\ index = {} /\ last = NoRequest

\* the goroutines that call the syncer: the periodic sync and two clients
Procs == {"timer", "client1", "client2"}
None == "none"
Unlocked == [w |-> None, r |-> {}]
\* answer is what the git client answered to the syncRepo just made
Idle == [op |-> None, pc |-> "idle", url |-> "", snapshot |-> <<>>, attempted |-> <<>>,
         answer |-> None, callbacks |-> 0, calledAt |-> 0, result |-> None, calls |-> 0]
SyncerIdle == mu = Unlocked /\ task = [p \in Procs |-> Idle]

\* no Start or Stop has been called, nothing has been listed or resolved
LifeIdle == ctx = "live" /\ life = <<>>
TreeIdle == listed = <<>> /\ got = <<>>

pathVars == <<path, verdict>>
catalogVars == <<fs, gitRepos, repos, index, last>>
syncerVars == <<mu, task>>
lifeVars == <<ctx, life>>
treeVars == <<listed, got>>

-----------------------------------------------------------------------------
(* SpecPath: ValidateResourcePath applied to every bounded path            *)

InitPath ==
    /\ LifeIdle
    /\ TreeIdle
    /\ path \in Paths
    /\ verdict = "unchecked"
    /\ CatalogIdle
    /\ SyncerIdle

Validate ==
    /\ verdict = "unchecked"
    /\ verdict' = ValidateResourcePath(path)
    /\ UNCHANGED <<path, catalogVars, syncerVars, lifeVars, treeVars>>

NextPath == Validate

SpecPath == InitPath /\ [][NextPath]_vars

\* C1: ValidateResourcePath succeeds iff the normalized path starts with
\* scripts/, references/ or assets/, has no segment equal to "..", and is
\* not absolute.
C1_ValidateIffSegmentRule ==
    verdict # "unchecked" =>
        (verdict = "ok" <=>
            /\ HasValidPrefix(ToSlash(path))
            /\ ~HasDotDotSegment(ToSlash(path))
            /\ ~IsAbs(ToSlash(path)))

-----------------------------------------------------------------------------
(* SpecImport: ImportSkill applied to bounded archives, on a tree that     *)
(* earlier imports have filled                                             *)

Entry(n, t, d) == [name |-> n, type |-> t, data |-> d]

Entries ==
    { Entry(<<"demo", "">>, TypeDir, ""),
      Entry(<<"demo", "SKILL.md">>, TypeReg, "demo"),
      Entry(<<"demo", "SKILL.md">>, TypeReg, "tool"),
      Entry(<<"demo", "sub">>, TypeReg, "v1"),
      Entry(<<"demo", "sub", "SKILL.md">>, TypeReg, "sub"),
      Entry(<<"demo", "link">>, TypeOther, ""),
      Entry(<<"demo", "..", "x.txt">>, TypeReg, "v1"),
      Entry(<<"Demo", "SKILL.md">>, TypeReg, "Demo"),
      Entry(<<"demo", "SKILL.md">>, TypeReg, Garbage),
      Entry(<<"tool", "SKILL.md">>, TypeReg, "tool"),
      Entry(<<"tool", "x.txt">>, TypeReg, "v1") }

Archives == UNION { [1..n -> Entries] : n \in 0..MaxEntries }

\* The trees an import can meet: an empty root, a root holding the skill
\* demo with a resource, a root holding a plain directory tool
TreeOf(files) ==
    LET dirs == UNION { { SubSeq(p, 1, k) : k \in 1..(Len(p) - 1) } : p \in DOMAIN files }
    IN [q \in dirs \cup DOMAIN files |->
            IF q \in DOMAIN files THEN FileNode(files[q]) ELSE DirNode]

DemoTree == TreeOf((<<"skills", "demo", "SKILL.md">> :> "demo")
                   @@ (<<"skills", "demo", "scripts", "x.txt">> :> "v0"))
ToolDirTree == TreeOf(<<"skills", "tool", "x.txt">> :> "v0")

\* a root holding a directory whose name is not a skill name
UpperDirTree == TreeOf(<<"skills", "Demo", "x.txt">> :> "v0")

ImportTrees == {EmptyTree, DemoTree, ToolDirTree, UpperDirTree}

InitImport ==
    /\ LifeIdle
    /\ TreeIdle
    /\ PathIdle
    /\ SyncerIdle
    /\ fs \in ImportTrees
    /\ gitRepos = <<>>
    /\ repos = <<>>
    /\ index = {}
    /\ last = NoRequest

\* What a request's archive is, for the properties: the first segment of
\* its first entry, whether an entry name contains "..", whether an entry
\* is filed under another first segment
Candidate(archive) == IF Len(archive) = 0 THEN "" ELSE archive[1].name[1]

Shape(archive) ==
    [dotdot |-> \E k \in 1..Len(archive) : Contains(JoinChars(archive[k].name), <<".", ".">>),
     foreign |-> \E k \in 1..Len(archive) : archive[k].name[1] # Candidate(archive),
     manifests |-> Cardinality({ k \in 1..Len(archive) :
                                    archive[k].name[Len(archive[k].name)] = ManifestName }),
     atCandidate |-> \E k \in 1..Len(archive) :
                        archive[k].name = <<Candidate(archive), ManifestName>>,
     suffix |-> \E k \in 1..Len(archive) :
                   HasSuffix(JoinChars(archive[k].name), Chars(ManifestName)),
     validName |-> ValidateSkillName(Chars(Candidate(archive)))]

\* domain.ImportSkill(archiveData, skillsDir)
Import(archive, failAt) ==
    LET r == ImportSkill(fs, archive, failAt) IN
    /\ last.op = "none"
    /\ fs' = r.fs
    /\ last' = [op |-> "ImportSkill", name |-> <<Candidate(archive)>>,
                input |-> Shape(archive),
                status |-> IF r.ok THEN "ok" ELSE r.err, n |-> 1]
    /\ UNCHANGED <<lifeVars, treeVars, pathVars, syncerVars, gitRepos, repos, index>>

NextImport == \E archive \in Archives, failAt \in 0..MaxEntries : Import(archive, failAt)

SpecImport == InitImport /\ [][NextImport]_vars

\* the paths a step has created or written
Written(f, g) == { p \in DOMAIN g : p \notin DOMAIN f \/ f[p] # g[p] }

\* C3: whenever import returns an error, the tree is exactly what it was
\* before the call.
C3_ImportAllOrNothing ==
    [][(last'.op = "ImportSkill" /\ last'.status # "ok") => fs' = fs]_vars

\* C4: everything import creates or writes lies inside root/<candidate>,
\* the first segment of the first entry, and an archive with a ".." in any
\* entry name is rejected with nothing written.
C4_ImportStaysInCandidate ==
    [][last'.op = "ImportSkill" =>
        /\ \A p \in Written(fs, fs') : Under(Join(skillsDir, last'.name), p)
        /\ last'.input.dotdot => (last'.status # "ok" /\ fs' = fs)]_vars

\* C4 witness: an import has extracted an entry filed under another top name
C4_Witness ==
    /\ last.op = "ImportSkill"
    /\ last.status = "ok"
    /\ last.input.foreign
    /\ Exists(fs, <<"skills", "demo", "x.txt">>)

\* C3 failing case: a failed import has left files of the archive behind
C3_PartialTreeLeft ==
    /\ last.op = "ImportSkill"
    /\ last.status = "extract"
    /\ Exists(fs, <<"skills", "demo", "SKILL.md">>)

\* C22 as stated: when the root already holds an entry named like the
\* archive's candidate name, import fails with the already-exists error and
\* the tree is unchanged.
C22_ExistingDestinationFails ==
    [][(/\ last'.op = "ImportSkill"
        /\ last'.name # <<"">>
        /\ Stat(fs, Join(skillsDir, last'.name)))
       => (last'.status = "exists" /\ fs' = fs)]_vars

\* C22: when the root already holds an entry named like the archive's
\* candidate name, import fails before extracting anything and the tree is
\* unchanged; the error is already-exists exactly when the candidate name
\* is a skill name, no entry name contains ".." and some entry name ends in
\* SKILL.md, and the error of the failed check otherwise.
C22_ExistingDestinationRejected ==
    [][(/\ last'.op = "ImportSkill"
        /\ last'.name # <<"">>
        /\ Stat(fs, Join(skillsDir, last'.name)))
       => /\ fs' = fs
          /\ last'.status \in {"exists", "invalidname", "dotdot", "nomanifest"}
          /\ last'.status = "exists" <=>
                (last'.input.validName /\ ~last'.input.dotdot /\ last'.input.suffix)]_vars

\* C22 witness: an archive with a manifest was refused because demo exists,
\* and demo is as it was
C22_Witness ==
    /\ last.op = "ImportSkill"
    /\ last.status = "exists"
    /\ last.name = <<"demo">>
    /\ last.input.manifests > 0
    /\ fs = DemoTree

\* C23: import succeeds only for an archive with exactly one manifest
\* entry, and that entry is <candidate>/SKILL.md.
C23_ExactlyOneManifest ==
    (last.op = "ImportSkill" /\ last.status = "ok")
    => (last.input.manifests = 1 /\ last.input.atCandidate)

-----------------------------------------------------------------------------
(* SpecCatalog: the REST handlers, one request at a time, over the tree,   *)
(* the enabled mirror names, the mirror URL list and the search index      *)

\* Searcher.IndexSkills when the index cannot be recreated: the old index
\* has been removed
IndexLost == {}

\* the record of a served request: the handler, the skill name of the
\* request and the HTTP status of the reply
Reply(op, name, status) ==
    [op |-> op, name |-> name, input |-> <<>>, status |-> status, n |-> last.n + 1]

\* the record of a served resource request: input keeps the relative path
\* the request supplied
ResourceReply(op, name, supplied, status) ==
    [op |-> op, name |-> name, input |-> supplied, status |-> status, n |-> last.n + 1]

\* A handler that does not look at the error of the rebuild
ReindexIgnored(op, name, status) ==
    [op |-> op, name |-> name, input |-> <<"reindex">>, status |-> 200, n |-> last.n + 1]

\* the reply of a handler whose index rebuild returned an error; for the
\* mirror requests the name kept is the mirror's directory name
ReindexFailed(op, name, status) ==
    [op |-> op, name |-> name, input |-> <<"reindex">>, status |-> status, n |-> last.n + 1]

\* the manifest a create or update request writes for the name
Frontmatter(name, description) ==
    IF description = "yamlbreak" \/ Len(name) # 1 THEN Garbage ELSE name[1]

\* a write that meets an I/O error leaves the tree as it is
WriteFileIO(f, p, d, ioOk) == IF ioOk THEN WriteFile(f, p, d) ELSE [ok |-> FALSE, fs |-> f]

\* the resource path as a request gives it, with the type prepended when
\* the path does not start with it (createSkillResource, JSON body)
WithTypePrefix(type, resourcePath) ==
    IF type # "" /\ ~HasPrefix(JoinChars(resourcePath), Chars(type) \o <<"/">>)
    THEN <<type>> \o resourcePath
    ELSE resourcePath

\* getSkillPath: the directory of a skill identifier
getSkillPath(f, skillID) ==
    IF Len(skillID) = 2
    THEN findSkillDirByName(f, Join(skillsDir, <<skillID[1]>>), skillID[2])
    ELSE IF Stat(f, Append(Join(skillsDir, skillID), ManifestName))
         THEN [ok |-> TRUE, path |-> Join(skillsDir, skillID)]
         ELSE [ok |-> FALSE, path |-> <<>>]

\* GetSkillResourceInfo succeeds
ResourceInfoOk(f, skillID, resourcePath) ==
    /\ ValidateResourcePath(JoinChars(resourcePath)) = "ok"
    /\ getSkillPath(f, skillID).ok
    /\ IsFileAt(f, Join(getSkillPath(f, skillID).path, resourcePath))

createSkill(name, description, fault) ==
    LET skillDir == Join(skillsDir, name)
        made == MkdirAll(fs, skillDir)
        written == WriteFileIO(made.fs, Append(skillDir, ManifestName),
                               Frontmatter(name, description), fault # "io")
    IN /\ last.n < MaxRequests
       /\ UNCHANGED <<lifeVars, treeVars, pathVars, syncerVars, gitRepos, repos>>
       /\ IF JoinChars(name) = <<>> \/ ~ValidateSkillName(JoinChars(name)) \/ description = ""
          THEN /\ last' = Reply("createSkill", name, 400)
               /\ UNCHANGED <<fs, index>>
          ELSE IF ~made.ok
          THEN /\ last' = Reply("createSkill", name, 500)
               /\ UNCHANGED <<fs, index>>
          ELSE IF ~written.ok
          THEN /\ fs' = RemoveAll(made.fs, skillDir)
               /\ last' = Reply("createSkill", name, 500)
               /\ UNCHANGED index
          ELSE IF fault = "index"
          THEN /\ fs' = written.fs
               /\ index' = IndexLost
               /\ last' = ReindexFailed("createSkill", name, 500)
          ELSE /\ fs' = written.fs
               /\ index' = RebuildIndex(written.fs, gitRepos, index)
               /\ last' = Reply("createSkill", name,
                                IF ReadSkill(written.fs, name).ok THEN 201 ELSE 500)

updateSkill(name, description, fault) ==
    LET existingSkill == ReadSkill(fs, name)
        skillDir == Join(skillsDir, name)
        written == WriteFileIO(fs, Append(skillDir, ManifestName),
                               Frontmatter(name, description), fault # "io")
    IN /\ last.n < MaxRequests
       /\ UNCHANGED <<lifeVars, treeVars, pathVars, syncerVars, gitRepos, repos>>
       /\ IF ~existingSkill.ok
          THEN /\ last' = Reply("updateSkill", name, 404)
               /\ UNCHANGED <<fs, index>>
          ELSE IF existingSkill.ReadOnly
          THEN /\ last' = Reply("updateSkill", name, 403)
               /\ UNCHANGED <<fs, index>>
          ELSE IF description = ""
          THEN /\ last' = Reply("updateSkill", name, 400)
               /\ UNCHANGED <<fs, index>>
          ELSE IF ~written.ok
          THEN /\ last' = Reply("updateSkill", name, 500)
               /\ UNCHANGED <<fs, index>>
          ELSE IF fault = "index"
          THEN /\ fs' = written.fs
               /\ index' = IndexLost
               /\ last' = ReindexFailed("updateSkill", name, 500)
          ELSE /\ fs' = written.fs
               /\ index' = RebuildIndex(written.fs, gitRepos, index)
               /\ last' = Reply("updateSkill", name,
                                IF ReadSkill(written.fs, name).ok THEN 200 ELSE 500)

deleteSkill(name, indexOk) ==
    LET existingSkill == ReadSkill(fs, name)
        removed == RemoveAll(fs, Join(skillsDir, name))
    IN /\ last.n < MaxRequests
       /\ UNCHANGED <<lifeVars, treeVars, pathVars, syncerVars, gitRepos, repos>>
       /\ IF ~existingSkill.ok
          THEN /\ last' = Reply("deleteSkill", name, 404)
               /\ UNCHANGED <<fs, index>>
          ELSE IF existingSkill.ReadOnly
          THEN /\ last' = Reply("deleteSkill", name, 403)
               /\ UNCHANGED <<fs, index>>
          ELSE IF ~indexOk
          THEN /\ fs' = removed
               /\ index' = IndexLost
               /\ last' = ReindexFailed("deleteSkill", name, 500)
          ELSE /\ fs' = removed
               /\ index' = RebuildIndex(removed, gitRepos, index)
               /\ last' = Reply("deleteSkill", name, 204)

createSkillResource(skillName, type, reqPath) ==
    LET skill == ReadSkill(fs, skillName)
        resourcePath == WithTypePrefix(type, reqPath)
        fullPath == Join(Join(skillsDir, skillName), resourcePath)
        made == MkdirAll(fs, Dir(fullPath))
        written == WriteFile(made.fs, fullPath, "v1")
    IN /\ last.n < MaxRequests
       /\ UNCHANGED <<lifeVars, treeVars, pathVars, syncerVars, gitRepos, repos, index>>
       /\ IF ~skill.ok
          THEN /\ last' = ResourceReply("createSkillResource", skillName, reqPath, 404)
               /\ UNCHANGED fs
          ELSE IF skill.ReadOnly
          THEN /\ last' = ResourceReply("createSkillResource", skillName, reqPath, 403)
               /\ UNCHANGED fs
          ELSE IF ValidateResourcePath(JoinChars(resourcePath)) # "ok"
          THEN /\ last' = ResourceReply("createSkillResource", skillName, reqPath, 400)
               /\ UNCHANGED fs
          ELSE IF ~made.ok
          THEN /\ last' = ResourceReply("createSkillResource", skillName, reqPath, 500)
               /\ UNCHANGED fs
          ELSE IF ~written.ok
          THEN /\ fs' = made.fs
               /\ last' = ResourceReply("createSkillResource", skillName, reqPath, 500)
          ELSE /\ fs' = written.fs
               /\ last' = ResourceReply("createSkillResource", skillName, reqPath,
                                IF ResourceInfoOk(written.fs, skill.ID, resourcePath)
                                THEN 201 ELSE 500)

updateSkillResource(skillName, resourcePath) ==
    LET skill == ReadSkill(fs, skillName)
        fullPath == Join(Join(skillsDir, skillName), resourcePath)
        written == WriteFile(fs, fullPath, "v2")
    IN /\ last.n < MaxRequests
       /\ UNCHANGED <<lifeVars, treeVars, pathVars, syncerVars, gitRepos, repos, index>>
       /\ IF JoinChars(resourcePath) = <<>>
          THEN /\ last' = ResourceReply("updateSkillResource", skillName, resourcePath, 400)
               /\ UNCHANGED fs
          ELSE IF ~skill.ok
          THEN /\ last' = ResourceReply("updateSkillResource", skillName, resourcePath, 404)
               /\ UNCHANGED fs
          ELSE IF skill.ReadOnly
          THEN /\ last' = ResourceReply("updateSkillResource", skillName, resourcePath, 403)
               /\ UNCHANGED fs
          ELSE IF ValidateResourcePath(JoinChars(resourcePath)) # "ok"
          THEN /\ last' = ResourceReply("updateSkillResource", skillName, resourcePath, 400)
               /\ UNCHANGED fs
          ELSE IF ~written.ok
          THEN /\ last' = ResourceReply("updateSkillResource", skillName, resourcePath, 500)
               /\ UNCHANGED fs
          ELSE /\ fs' = written.fs
               /\ last' = ResourceReply("updateSkillResource", skillName, resourcePath,
                                IF ResourceInfoOk(written.fs, skill.ID, resourcePath)
                                THEN 200 ELSE 500)

deleteSkillResource(skillName, resourcePath) ==
    LET skill == ReadSkill(fs, skillName)
        fullPath == Join(Join(skillsDir, skillName), resourcePath)
        removed == Remove(fs, fullPath)
    IN /\ last.n < MaxRequests
       /\ UNCHANGED <<lifeVars, treeVars, pathVars, syncerVars, gitRepos, repos, index>>
       /\ IF JoinChars(resourcePath) = <<>>
          THEN /\ last' = ResourceReply("deleteSkillResource", skillName, resourcePath, 400)
               /\ UNCHANGED fs
          ELSE IF ~skill.ok
          THEN /\ last' = ResourceReply("deleteSkillResource", skillName, resourcePath, 404)
               /\ UNCHANGED fs
          ELSE IF skill.ReadOnly
          THEN /\ last' = ResourceReply("deleteSkillResource", skillName, resourcePath, 403)
               /\ UNCHANGED fs
          ELSE IF ValidateResourcePath(JoinChars(resourcePath)) # "ok"
          THEN /\ last' = ResourceReply("deleteSkillResource", skillName, resourcePath, 400)
               /\ UNCHANGED fs
          ELSE IF ~removed.ok
          THEN /\ last' = ResourceReply("deleteSkillResource", skillName, resourcePath, 500)
               /\ UNCHANGED fs
          ELSE /\ fs' = removed.fs
               /\ last' = ResourceReply("deleteSkillResource", skillName, resourcePath, 204)

\* A callback that leaves the index as it is
onUpdateKeepsIndex(f, g, idx, indexOk) == idx

\* the re-index callback the syncer is constructed with
onUpdate(f, g, idx, indexOk) == IF indexOk THEN RebuildIndex(f, g, idx) ELSE IndexLost

\* the basic URL format check of addGitRepo
ValidURLFormat(url) ==
    \/ HasPrefix(url, <<"h","t","t","p",":","/","/">>)
    \/ HasPrefix(url, <<"h","t","t","p","s",":","/","/">>)
    \/ HasPrefix(url, <<"g","i","t","@">>)

\* the first URL of the list whose generated id is the given one
FindByID(rs, id) ==
    LET hits == { k \in 1..Len(rs) : GenerateID(rs[k]) = id }
    IN IF hits = {} THEN "" ELSE rs[CHOOSE k \in hits : \A j \in hits : k <= j]

addGitRepo(url, outcome, shape, indexOk) ==
    LET appended == Append(repos, url)
        synced == syncRepo(fs, url, outcome, shape)
    IN /\ last.n < MaxRequests
       /\ UNCHANGED <<lifeVars, treeVars, pathVars, syncerVars>>
       /\ IF url = "" \/ ~ValidURLFormat(Chars(url))
          THEN /\ last' = Reply("addGitRepo", <<>>, 400)
               /\ UNCHANGED <<fs, gitRepos, repos, index>>
          ELSE IF SeqContains(repos, url)
          THEN /\ last' = Reply("addGitRepo", <<>>, 400)
               /\ UNCHANGED <<fs, gitRepos, repos, index>>
          ELSE IF ~synced.ok
          THEN /\ repos' = RemoveFirst(appended, url)
               /\ fs' = synced.fs
               /\ last' = Reply("addGitRepo", <<>>, 400)
               /\ UNCHANGED <<gitRepos, index>>
          ELSE IF ~indexOk
          THEN /\ repos' = appended
               /\ fs' = synced.fs
               /\ index' = onUpdate(synced.fs, gitRepos, index, FALSE)
               /\ last' = ReindexFailed("addGitRepo", <<ExtractRepoName(url)>>, 400)
               /\ UNCHANGED gitRepos
          ELSE /\ repos' = appended
               /\ fs' = synced.fs
               /\ index' = onUpdate(synced.fs, gitRepos, index, TRUE)
               /\ gitRepos' = RepoNames(appended)
               /\ last' = Reply("addGitRepo", <<>>, 201)

deleteGitRepo(id, indexOk) ==
    LET foundURL == FindByID(repos, id)
        remaining == RemoveFirst(repos, foundURL)
        removed == RemoveAll(fs, Join(skillsDir, <<ExtractRepoName(foundURL)>>))
    IN /\ last.n < MaxRequests
       /\ UNCHANGED <<lifeVars, treeVars, pathVars, syncerVars>>
       /\ IF foundURL = ""
          THEN /\ last' = Reply("deleteGitRepo", <<>>, 404)
               /\ UNCHANGED <<fs, gitRepos, repos, index>>
          ELSE /\ repos' = remaining
               /\ fs' = removed
               /\ gitRepos' = RepoNames(remaining)
               /\ index' = onUpdate(removed, RepoNames(remaining), index, indexOk)
               /\ last' = IF indexOk THEN Reply("deleteGitRepo", <<>>, 204)
                          ELSE ReindexFailed("deleteGitRepo", <<ExtractRepoName(foundURL)>>, 500)

syncGitRepo(id, outcome, shape, indexOk) ==
    LET foundURL == FindByID(repos, id)
        synced == syncRepo(fs, foundURL, outcome, shape)
    IN /\ last.n < MaxRequests
       /\ UNCHANGED <<lifeVars, treeVars, pathVars, syncerVars, gitRepos, repos>>
       /\ IF foundURL = ""
          THEN /\ last' = Reply("syncGitRepo", <<>>, 404)
               /\ UNCHANGED <<fs, index>>
          ELSE IF ~synced.ok
          THEN /\ fs' = synced.fs
               /\ last' = Reply("syncGitRepo", <<>>, 500)
               /\ UNCHANGED index
          ELSE /\ fs' = synced.fs
               /\ index' = onUpdate(synced.fs, gitRepos, index, indexOk)
               /\ last' = IF indexOk THEN Reply("syncGitRepo", <<>>, 200)
                          ELSE ReindexFailed("syncGitRepo", <<ExtractRepoName(foundURL)>>, 500)

importSkill(archive, failAt, indexOk) ==
    LET r == ImportSkill(fs, archive, failAt)
    IN /\ last.n < MaxRequests
       /\ UNCHANGED <<lifeVars, treeVars, pathVars, syncerVars, gitRepos, repos>>
       /\ IF ~r.ok
          THEN /\ fs' = r.fs
               /\ last' = Reply("importSkill", <<Candidate(archive)>>, 400)
               /\ UNCHANGED index
          ELSE /\ fs' = r.fs
               /\ index' = onUpdate(r.fs, gitRepos, index, indexOk)
               /\ last' = IF ~indexOk THEN ReindexFailed("importSkill", <<r.name>>, 500)
                          ELSE Reply("importSkill", <<r.name>>,
                                     IF ReadSkill(r.fs, <<r.name>>).ok THEN 201 ELSE 500)

\* the loop of syncAll: syncRepo for each URL in turn; an error is logged
\* and the loop goes on
RECURSIVE SyncEach(_, _, _, _)
SyncEach(f, rs, outcome, shape) ==
    IF rs = <<>> THEN f
    ELSE SyncEach(syncRepo(f, Head(rs), outcome, shape).fs, Tail(rs), outcome, shape)

\* syncAll as periodicSync runs it between two requests.  It has no HTTP
\* reply: the status kept is 200 for a nil error and 500 for an error.
syncAll(outcome, shape, indexOk) ==
    /\ last.n < MaxRequests
    /\ fs' = SyncEach(fs, repos, outcome, shape)
    /\ index' = onUpdate(SyncEach(fs, repos, outcome, shape), gitRepos, index, indexOk)
    /\ last' = IF indexOk THEN Reply("syncAll", <<>>, 200)
               ELSE ReindexFailed("syncAll", <<>>, 500)
    /\ UNCHANGED <<lifeVars, treeVars, pathVars, syncerVars, gitRepos, repos>>

\* the inputs of the requests
SkillNames == {<<"demo">>, <<"repo">>, <<"tool">>, <<"Demo">>, <<"repo", "tool">>,
               <<"repo", "sub", "tool">>}
Descriptions == {"", "plain", "yamlbreak"}
\* what goes wrong while a request is served: nothing, a file write, the
\* re-creation of the search index
Faults == {"none", "io", "index"}
ResourceTypes == {"", "scripts"}
ResourcePaths == {<<>>, <<"x.txt">>, <<"scripts", "x.txt">>}
RequestURLs == Urls \cup {""}
RepoIDs == { GenerateID(u) : u \in Urls } \cup {<<"d","e","m","o">>}
CatalogArchives ==
    { <<Entry(<<"demo", "SKILL.md">>, TypeReg, "demo")>>,
      <<Entry(<<"tool", "SKILL.md">>, TypeReg, "tool"), Entry(<<"tool", "x.txt">>, TypeReg, "v1")>>,
      <<Entry(<<"demo", "SKILL.md">>, TypeReg, Garbage)>> }

\* The server starts on an empty root, on a root that holds the local skill
\* demo, or on a root that holds the clone of the one configured mirror;
\* NewFileSystemManager builds the index of what it finds.
MirrorTree == syncRepo(EmptyTree, Url1, "updated", "rooted").fs

CatalogStarts == { [fs |-> EmptyTree, repos |-> <<>>],
                   [fs |-> DemoTree, repos |-> <<>>],
                   [fs |-> MirrorTree, repos |-> <<Url1>>] }

InitCatalog ==
    /\ LifeIdle
    /\ TreeIdle
    /\ PathIdle
    /\ SyncerIdle
    /\ \E start \in CatalogStarts :
          /\ fs = start.fs
          /\ repos = start.repos
          /\ gitRepos = RepoNames(start.repos)
          /\ index = RebuildIndex(start.fs, RepoNames(start.repos), {})
    /\ last = NoRequest

NextCatalog ==
    \/ \E name \in SkillNames, d \in Descriptions, fault \in Faults :
          createSkill(name, d, fault)
    \/ \E name \in SkillNames, d \in Descriptions, fault \in Faults :
          updateSkill(name, d, fault)
    \/ \E name \in SkillNames, indexOk \in BOOLEAN : deleteSkill(name, indexOk)
    \/ \E name \in SkillNames, t \in ResourceTypes, rp \in ResourcePaths :
          createSkillResource(name, t, rp)
    \/ \E name \in SkillNames, rp \in ResourcePaths : updateSkillResource(name, rp)
    \/ \E name \in SkillNames, rp \in ResourcePaths : deleteSkillResource(name, rp)
    \/ \E archive \in CatalogArchives, failAt \in 0..1, indexOk \in BOOLEAN :
          importSkill(archive, failAt, indexOk)
    \/ \E url \in RequestURLs, o \in GitOutcomes, sh \in Shapes, indexOk \in BOOLEAN :
          addGitRepo(url, o, sh, indexOk)
    \/ \E id \in RepoIDs, indexOk \in BOOLEAN : deleteGitRepo(id, indexOk)
    \/ \E id \in RepoIDs, o \in GitOutcomes, sh \in Shapes, indexOk \in BOOLEAN :
          syncGitRepo(id, o, sh, indexOk)
    \/ \E o \in GitOutcomes, sh \in Shapes, indexOk \in BOOLEAN : syncAll(o, sh, indexOk)

SpecCatalog == InitCatalog /\ [][NextCatalog]_vars

\* the handlers that create, change or remove skills and resources
WriteOps == {"createSkill", "updateSkill", "deleteSkill",
             "createSkillResource", "updateSkillResource", "deleteSkillResource"}

\* p lies in the working directory of an enabled mirror
InMirror(g, p) == \E k \in 1..Len(g) : Under(Join(skillsDir, <<g[k]>>), p)

\* C2: no create-skill, update-skill, delete-skill or resource
\* create/update/delete request writes, overwrites or removes a file or
\* directory under the working directory of a currently enabled mirror.
C2_MirrorsReadOnly ==
    [][last'.op \in WriteOps =>
        \A p \in DOMAIN fs \cup DOMAIN fs' :
            InMirror(gitRepos, p) =>
                (p \in DOMAIN fs /\ p \in DOMAIN fs' /\ fs'[p] = fs[p])]_vars

Succeeded == last.status \in {200, 201, 204}

\* C5: after a create-skill, update-skill, delete-skill, import-skill or
\* delete-mirror request has returned success, the identifiers held by the
\* search index are exactly the identifiers ListSkills returns.
C5_IndexMatchesListAll ==
    (last.op \in {"createSkill", "updateSkill", "deleteSkill", "importSkill", "deleteGitRepo"}
        /\ Succeeded)
    => index = IDs(ListSkills(fs, gitRepos))

\* C5 witness: a skill has been created next to an enabled mirror and the
\* index holds the local skill and the mirror's skills
C5_Witness ==
    /\ last.op = "createSkill"
    /\ last.status = 201
    /\ gitRepos = <<"repo">>
    /\ {<<"demo">>, <<"repo", "tool">>} \subseteq index

\* C6: after an add-mirror request has returned success, the search index
\* contains every skill ListSkills returns, the new mirror's included.
C6_AddMirrorIndexed ==
    (last.op = "addGitRepo" /\ last.status = 201)
    => IDs(ListSkills(fs, gitRepos)) \subseteq index

ResourceWriteOps == {"createSkillResource", "updateSkillResource", "deleteSkillResource"}

\* C32: a resource write or delete whose supplied relative path
\* ValidateResourcePath rejects returns an error and leaves the tree as it
\* was; the supplied path is not rewritten into an accepted one and used.
C32_RejectedPathAborts ==
    [][(/\ last'.n = last.n + 1
        /\ last'.op \in ResourceWriteOps
        /\ ValidateResourcePath(JoinChars(last'.input)) # "ok")
       => (fs' = fs /\ last'.status \notin {200, 201, 204})]_vars

\* C24: when the index rebuild that follows a mutation fails, the operation
\* reports an error and the mutation is kept: the manifest a create, update
\* or import wrote is there, the directory a delete removed is gone, the
\* URL add-mirror appended is in the list and its clone is there, the clone
\* a sync-one wrote is there, and neither sync changes the list.
C24_ReindexFailureKeepsMutation ==
    [][last'.input = <<"reindex">> =>
        /\ last'.status \in {400, 500}
        /\ last'.op \in {"createSkill", "updateSkill", "importSkill"} =>
              IsFileAt(fs', Append(Join(skillsDir, last'.name), ManifestName))
        /\ last'.op = "deleteSkill" =>
              (Exists(fs, Join(skillsDir, last'.name)) /\ ~Exists(fs', Join(skillsDir, last'.name)))
        /\ last'.op = "addGitRepo" =>
              /\ Len(repos') = Len(repos) + 1
              /\ SubSeq(repos', 1, Len(repos)) = repos
              /\ <<ExtractRepoName(repos'[Len(repos')])>> = last'.name
        /\ last'.op \in {"addGitRepo", "syncGitRepo"} =>
              IsDirAt(fs', Append(Join(skillsDir, last'.name), GitDir))
        /\ last'.op = "deleteGitRepo" =>
              (Len(repos') = Len(repos) - 1 /\ ~Exists(fs', Join(skillsDir, last'.name)))
        /\ last'.op \in {"syncGitRepo", "syncAll"} => repos' = repos]_vars

\* C24 witness: add-mirror has returned an error after its rebuild failed,
\* and the URL is in the list
C24_Witness ==
    /\ last.op = "addGitRepo"
    /\ last.input = <<"reindex">>
    /\ last.status = 400
    /\ repos = <<Url1>>
    /\ IsDirAt(fs, <<"skills", "repo", GitDir>>)

-----------------------------------------------------------------------------
(* SpecSyncer: the GitSyncer under concurrent callers.  Every goroutine   *)
(* runs one call at a time, one lock operation or one blocking call per    *)
(* step.  A goroutine at pc "sync" is inside syncRepo (the directory       *)
(* check, the clone or the pull); at pc "callback" it is about to run      *)
(* onUpdate.                                                               *)

\* the URL a client adds, removes and syncs
Own(p) == IF p = "client1" THEN Url1 ELSE Url2

\* the calls a goroutine makes: periodicSync calls syncAll, a client calls
\* the exported methods
CallsOf(p) == IF p = "timer" THEN {"syncAll"}
              ELSE {"AddRepo", "RemoveRepo", "SyncRepo", "GetRepos"}

Holds(p) == mu.w = p \/ p \in mu.r

\* the calls made so far
CallsMade == task["timer"].calls + task["client1"].calls + task["client2"].calls

\* a goroutine enters a call
Call(p, op) ==
    /\ task[p].pc = "idle"
    /\ CallsMade < MaxCalls
    /\ op \in CallsOf(p)
    /\ task' = [task EXCEPT ![p] =
                  [Idle EXCEPT !.op = op,
                               !.url = IF p = "timer" THEN "" ELSE Own(p),
                               !.pc = IF op \in {"AddRepo", "RemoveRepo"} THEN "lock" ELSE "rlock",
                               !.calls = task[p].calls + 1]]
    /\ UNCHANGED <<lifeVars, treeVars, pathVars, catalogVars, mu>>

\* g.mu.RLock() of GetRepos
RLock(p) ==
    /\ task[p].pc = "rlock"
    /\ mu.w = None
    /\ mu' = [mu EXCEPT !.r = @ \cup {p}]
    /\ task' = [task EXCEPT ![p].pc = "copy"]
    /\ UNCHANGED <<lifeVars, treeVars, pathVars, catalogVars>>

\* A syncAll that returns at once when there is nothing to sync
AfterGetReposSkipEmpty(t, copied) ==
    IF t.op = "syncAll"
    THEN [t EXCEPT !.snapshot = copied,
                   !.pc = IF copied = <<>> THEN "done" ELSE "sync",
                   !.result = IF copied = <<>> THEN "ok" ELSE t.result,
                   !.url = IF copied = <<>> THEN "" ELSE copied[1]]
    ELSE IF t.op = "SyncRepo"
    THEN (IF SeqContains(copied, t.url)
          THEN [t EXCEPT !.snapshot = copied, !.pc = "sync"]
          ELSE [t EXCEPT !.snapshot = copied, !.pc = "done", !.result = "notconfigured"])
    ELSE [t EXCEPT !.snapshot = copied, !.pc = "done", !.result = "ok"]

\* where a call goes on with the copy GetRepos returned
AfterGetRepos(t, copied) ==
    IF t.op = "syncAll"
    THEN [t EXCEPT !.snapshot = copied,
                   !.pc = IF copied = <<>> THEN "callback" ELSE "sync",
                   !.url = IF copied = <<>> THEN "" ELSE copied[1]]
    ELSE IF t.op = "SyncRepo"
    THEN (IF SeqContains(copied, t.url)
          THEN [t EXCEPT !.snapshot = copied, !.pc = "sync"]
          ELSE [t EXCEPT !.snapshot = copied, !.pc = "done", !.result = "notconfigured"])
    ELSE [t EXCEPT !.snapshot = copied, !.pc = "done", !.result = "ok"]

\* GetRepos copies the list and releases the read lock
CopyRepos(p) ==
    /\ task[p].pc = "copy"
    /\ mu' = [mu EXCEPT !.r = @ \ {p}]
    /\ task' = [task EXCEPT ![p] = AfterGetRepos(task[p], repos)]
    /\ UNCHANGED <<lifeVars, treeVars, pathVars, catalogVars>>

\* g.mu.Lock() at the start of AddRepo and RemoveRepo
Lock(p) ==
    /\ task[p].pc = "lock"
    /\ mu = Unlocked
    /\ mu' = [mu EXCEPT !.w = p]
    /\ task' = [task EXCEPT ![p].pc = "locked"]
    /\ UNCHANGED <<lifeVars, treeVars, pathVars, catalogVars>>

\* An AddRepo that keeps the lock until it returns
AddRepoAppendLocked(p) ==
    /\ task[p].pc = "locked"
    /\ task[p].op = "AddRepo"
    /\ IF SeqContains(repos, task[p].url)
       THEN /\ task' = [task EXCEPT ![p].pc = "done", ![p].result = "exists"]
            /\ mu' = Unlocked
            /\ UNCHANGED repos
       ELSE /\ repos' = Append(repos, task[p].url)
            /\ task' = [task EXCEPT ![p].pc = "sync"]
            /\ UNCHANGED mu
    /\ UNCHANGED <<lifeVars, treeVars, pathVars, fs, gitRepos, index, last>>

\* AddRepo under the lock: the duplicate check, the append, the unlock
AddRepoAppend(p) ==
    /\ task[p].pc = "locked"
    /\ task[p].op = "AddRepo"
    /\ mu' = Unlocked
    /\ IF SeqContains(repos, task[p].url)
       THEN /\ task' = [task EXCEPT ![p].pc = "done", ![p].result = "exists"]
            /\ UNCHANGED repos
       ELSE /\ repos' = Append(repos, task[p].url)
            /\ task' = [task EXCEPT ![p].pc = "sync"]
    /\ UNCHANGED <<lifeVars, treeVars, pathVars, fs, gitRepos, index, last>>

\* A RemoveRepo that also deletes the mirror's working directory
RemoveRepoAndDirectory(p) ==
    /\ task[p].pc = "locked"
    /\ task[p].op = "RemoveRepo"
    /\ mu' = Unlocked
    /\ repos' = RemoveFirst(repos, task[p].url)
    /\ fs' = RemoveAll(fs, Join(skillsDir, <<ExtractRepoName(task[p].url)>>))
    /\ task' = [task EXCEPT ![p].pc = "done",
                            ![p].result = IF SeqContains(repos, task[p].url)
                                          THEN "ok" ELSE "notfound"]
    /\ UNCHANGED <<lifeVars, treeVars, pathVars, gitRepos, index, last>>

\* RemoveRepo under the lock; the deferred unlock runs on return
RemoveRepo(p) ==
    /\ task[p].pc = "locked"
    /\ task[p].op = "RemoveRepo"
    /\ mu' = Unlocked
    /\ repos' = RemoveFirst(repos, task[p].url)
    /\ task' = [task EXCEPT ![p].pc = "done",
                            ![p].result = IF SeqContains(repos, task[p].url)
                                          THEN "ok" ELSE "notfound"]
    /\ UNCHANGED <<lifeVars, treeVars, pathVars, fs, gitRepos, index, last>>

\* A syncAll that gives up at the first mirror that fails
AfterSyncStopOnFailure(t, ok) ==
    LET tried == Append(t.attempted, [url |-> t.url, ok |-> ok])
    IN IF t.op = "syncAll" /\ ok
       THEN [t EXCEPT !.attempted = tried,
                      !.pc = IF Len(tried) = Len(t.snapshot) THEN "callback" ELSE "sync",
                      !.url = IF Len(tried) = Len(t.snapshot) THEN ""
                              ELSE t.snapshot[Len(tried) + 1]]
       ELSE IF ok THEN [t EXCEPT !.attempted = tried, !.pc = "callback"]
       ELSE IF t.op = "AddRepo" THEN [t EXCEPT !.attempted = tried, !.pc = "undo"]
       ELSE [t EXCEPT !.attempted = tried, !.pc = "done", !.result = "syncfailed"]

\* where a call goes on after syncRepo has returned
AfterSync(t, ok) ==
    LET tried == Append(t.attempted, [url |-> t.url, ok |-> ok])
    IN IF t.op = "syncAll"
       THEN [t EXCEPT !.attempted = tried,
                      !.pc = IF Len(tried) = Len(t.snapshot) THEN "callback" ELSE "sync",
                      !.url = IF Len(tried) = Len(t.snapshot) THEN ""
                              ELSE t.snapshot[Len(tried) + 1]]
       ELSE IF ok THEN [t EXCEPT !.attempted = tried, !.pc = "callback"]
       ELSE IF t.op = "AddRepo" THEN [t EXCEPT !.attempted = tried, !.pc = "undo"]
       ELSE [t EXCEPT !.attempted = tried, !.pc = "done", !.result = "syncfailed"]

\* syncRepo returns: the clone or pull has ended with the given outcome
SyncReturns(p, outcome, shape) ==
    /\ task[p].pc = "sync"
    /\ fs' = syncRepo(fs, task[p].url, outcome, shape).fs
    /\ task' = [task EXCEPT ![p] =
                  [AfterSync(task[p], syncRepo(fs, task[p].url, outcome, shape).ok)
                      EXCEPT !.answer = outcome]]
    /\ UNCHANGED <<lifeVars, treeVars, pathVars, gitRepos, repos, index, last, mu>>

\* g.mu.Lock() of AddRepo after a failed sync
UndoLock(p) ==
    /\ task[p].pc = "undo"
    /\ mu = Unlocked
    /\ mu' = [mu EXCEPT !.w = p]
    /\ task' = [task EXCEPT ![p].pc = "undoing"]
    /\ UNCHANGED <<lifeVars, treeVars, pathVars, catalogVars>>

\* AddRepo takes the URL out of the list again, unlocks and fails
UndoAppend(p) ==
    /\ task[p].pc = "undoing"
    /\ mu' = Unlocked
    /\ repos' = RemoveFirst(repos, task[p].url)
    /\ task' = [task EXCEPT ![p].pc = "done", ![p].result = "syncfailed"]
    /\ UNCHANGED <<lifeVars, treeVars, pathVars, fs, gitRepos, index, last>>

\* g.onUpdate() at the end of AddRepo, SyncRepo and syncAll
Callback(p, indexOk) ==
    /\ task[p].pc = "callback"
    /\ index' = onUpdate(fs, gitRepos, index, indexOk)
    /\ task' = [task EXCEPT ![p].pc = "done",
                            ![p].callbacks = @ + 1,
                            ![p].calledAt = Len(task[p].attempted),
                            ![p].answer = None,
                            ![p].result = IF indexOk THEN "ok" ELSE "reindex"]
    /\ UNCHANGED <<lifeVars, treeVars, pathVars, fs, gitRepos, repos, last, mu>>

\* the call returns to its caller
Return(p) ==
    /\ task[p].pc = "done"
    /\ task' = [task EXCEPT ![p] = [Idle EXCEPT !.calls = task[p].calls]]
    /\ UNCHANGED <<lifeVars, treeVars, pathVars, catalogVars, mu>>

\* The syncer starts with a list from the configuration, nothing cloned yet
SyncerStarts == {<<>>, <<Url3, Url2>>, <<Url1, Url3>>}

InitSyncer ==
    /\ LifeIdle
    /\ TreeIdle
    /\ PathIdle
    /\ SyncerIdle
    /\ repos \in SyncerStarts
    /\ fs = EmptyTree
    /\ gitRepos = RepoNames(repos)
    /\ index = RebuildIndex(fs, gitRepos, {})
    /\ last = NoRequest

NextSyncer ==
    \E p \in Procs :
        \/ \E op \in CallsOf(p) : Call(p, op)
        \/ RLock(p)
        \/ CopyRepos(p)
        \/ Lock(p)
        \/ AddRepoAppend(p)
        \/ RemoveRepo(p)
        \/ \E o \in GitOutcomes : SyncReturns(p, o, "flat")
        \/ UndoLock(p)
        \/ UndoAppend(p)
        \/ \E indexOk \in BOOLEAN : Callback(p, indexOk)
        \/ Return(p)

SpecSyncer == InitSyncer /\ [][NextSyncer]_vars

\* the URLs a call has attempted, in the order of the attempts
AttemptedURLs(t) == [k \in 1..Len(t.attempted) |-> t.attempted[k].url]

\* C7: in one syncAll pass every URL of the snapshot is attempted exactly
\* once, in order, whatever the outcome of the other mirrors, and syncAll
\* fails only when the re-index callback fails.
C7_SyncAllAttemptsEach ==
    \A p \in Procs :
        task[p].op = "syncAll" =>
            /\ AttemptedURLs(task[p]) = SubSeq(task[p].snapshot, 1, Len(task[p].attempted))
            /\ task[p].pc = "done" =>
                  /\ AttemptedURLs(task[p]) = task[p].snapshot
                  /\ task[p].result \in {"ok", "reindex"}

\* C7 witness: a pass whose first mirror failed has gone on to sync the
\* second one and has returned success
C7_Witness ==
    /\ task["timer"].pc = "done"
    /\ Len(task["timer"].snapshot) = 2
    /\ ~task["timer"].attempted[1].ok
    /\ task["timer"].attempted[2].ok
    /\ task["timer"].result = "ok"

\* C8: every syncAll pass invokes the re-index callback exactly once, after
\* the last mirror of the snapshot has been attempted, whatever failed and
\* also when the snapshot is empty.
C8_CallbackOnceAfterLast ==
    \A p \in Procs :
        task[p].op = "syncAll" =>
            IF task[p].pc = "done"
            THEN task[p].callbacks = 1 /\ task[p].calledAt = Len(task[p].snapshot)
            ELSE task[p].callbacks = 0

\* C8 witness: a pass over an empty snapshot has run the callback
C8_Witness ==
    /\ task["timer"].op = "syncAll"
    /\ task["timer"].pc = "done"
    /\ task["timer"].snapshot = <<>>
    /\ task["timer"].callbacks = 1

\* the list without the URL u
Others(rs, u) == SelectSeq(rs, LAMBDA x : x # u)

\* C9: AddRepo never disturbs the other URLs of the list; when its sync
\* fails it returns an error with the URL out of the list and the callback
\* not invoked; for a URL already in the list it returns an error and
\* leaves the list unchanged.  Other goroutines add and remove other URLs
\* meanwhile.
C9_AddRepoRollsBack ==
    [][\A p \in Procs :
        /\ (task[p].op = "AddRepo" /\ task'[p] # task[p]) =>
              /\ Others(repos', task[p].url) = Others(repos, task[p].url)
              /\ task'[p].result = "exists" => repos' = repos
        /\ (task'[p].op = "AddRepo" /\ task'[p].pc = "done"
                /\ task'[p].result = "syncfailed") =>
              /\ ~SeqContains(repos', task'[p].url)
              /\ task'[p].callbacks = 0]_vars

\* C9 witness: an AddRepo has failed and rolled back while another
\* goroutine had appended its own URL after it
C9_Witness ==
    /\ task["client1"].op = "AddRepo"
    /\ task["client1"].pc = "done"
    /\ task["client1"].result = "syncfailed"
    /\ task["client2"].op = "AddRepo"
    /\ task["client2"].pc \in {"sync", "callback", "done"}
    /\ repos = <<Url2>>

\* the places where a goroutine holds the lock: all of them list operations
LockedPcs == {"copy", "locked", "undoing"}

\* C10: no goroutine holds the mirror-list lock while it is in syncRepo or
\* runs the re-index callback; the lock is held only across the copy, the
\* append and the removals, which never block.
C10_NoLockWhileBlocking ==
    \A p \in Procs :
        /\ task[p].pc \in {"sync", "callback"} => ~Holds(p)
        /\ Holds(p) <=> task[p].pc \in LockedPcs

\* C10 witness: one goroutine is inside syncRepo while another one holds
\* the lock for its append
C10_Witness ==
    /\ task["timer"].pc = "sync"
    /\ task["client1"].op = "AddRepo"
    /\ task["client1"].pc = "locked"
    /\ mu.w = "client1"

\* the working directory of the mirror a call is about
TargetDir(t) == Join(skillsDir, <<ExtractRepoName(t.url)>>)

\* C28: SyncRepo of a URL that is not in the list returns an error with no
\* clone, no pull and no callback.  For a listed URL it makes one attempt:
\* with the working directory absent a clone (on success the directory is a
\* repository afterwards, on failure nothing is created), else a pull (the
\* directory stays); a pull that finds the clone up to date succeeds and
\* changes nothing; the callback has run once when the call has succeeded
\* and not at all when the sync has failed.
C28_SyncRepo ==
    [][\A p \in Procs :
          /\ (task'[p].op = "SyncRepo" /\ task'[p].pc = "done") =>
                /\ task'[p].result = "notconfigured" =>
                      (/\ ~SeqContains(task'[p].snapshot, task'[p].url)
                       /\ task'[p].attempted = <<>>
                       /\ task'[p].callbacks = 0)
                /\ task'[p].result # "notconfigured" =>
                      (/\ SeqContains(task'[p].snapshot, task'[p].url)
                       /\ Len(task'[p].attempted) = 1
                       /\ task'[p].attempted[1].url = task'[p].url
                       /\ task'[p].callbacks = (IF task'[p].attempted[1].ok THEN 1 ELSE 0)
                       /\ task'[p].attempted[1].ok <=> task'[p].result \in {"ok", "reindex"})
          /\ (task[p].op = "SyncRepo" /\ task[p].pc = "sync"
                 /\ task'[p].answer = "uptodate"
                 /\ IsDirAt(fs, Append(TargetDir(task[p]), GitDir))) =>
                (task'[p].pc = "callback" /\ fs' = fs)
          /\ (task[p].op = "SyncRepo" /\ task[p].pc = "sync" /\ task'[p].pc # "sync") =>
                /\ repos' = repos
                /\ index' = index
                /\ IF ~Stat(fs, TargetDir(task[p]))
                   THEN IF task'[p].pc = "callback"
                        THEN IsDirAt(fs', Append(TargetDir(task[p]), GitDir))
                        ELSE fs' = fs /\ task'[p].result = "syncfailed"
                   ELSE /\ IsDirAt(fs', TargetDir(task[p]))
                        /\ task'[p].pc # "callback" =>
                              (fs' = fs /\ task'[p].result = "syncfailed")]_vars

\* C28 witness: a client's SyncRepo has pulled a mirror that an earlier
\* call had cloned, and has run the callback
C28_Witness ==
    /\ task["client1"].op = "SyncRepo"
    /\ task["client1"].pc = "done"
    /\ task["client1"].result = "ok"
    /\ task["client1"].callbacks = 1
    /\ task["timer"].attempted # <<>>
    /\ task["timer"].attempted[1] = [url |-> Url1, ok |-> TRUE]

\* C27: RemoveRepo of a listed URL takes exactly that entry out of the list
\* and keeps the others in their order; of an unlisted URL it returns an
\* error and leaves the list as it is; in both cases no file and no index
\* entry changes and the callback is not run.
C27_RemoveRepoListOnly ==
    [][\A p \in Procs :
          (task[p].op = "RemoveRepo" /\ task[p].pc # "done" /\ task'[p].pc = "done") =>
              /\ fs' = fs
              /\ index' = index
              /\ gitRepos' = gitRepos
              /\ task'[p].callbacks = 0
              /\ task'[p].attempted = <<>>
              /\ IF \E k \in 1..Len(repos) : repos[k] = task[p].url
                 THEN /\ task'[p].result = "ok"
                      /\ repos' = SelectSeq(repos, LAMBDA u : u # task[p].url)
                      /\ Len(repos') = Len(repos) - 1
                 ELSE /\ task'[p].result = "notfound"
                      /\ repos' = repos]_vars

\* C27 witness: a client has removed its URL while the clone of that
\* mirror is on disk, and the other URL is still listed
C27_Witness ==
    /\ task["client1"].op = "RemoveRepo"
    /\ task["client1"].pc = "done"
    /\ task["client1"].result = "ok"
    /\ repos = <<Url3>>
    /\ IsDirAt(fs, <<"skills", "repo", GitDir>>)

-----------------------------------------------------------------------------
(* SpecLifecycle: Start, Stop and periodicSync.  The goroutine "main"      *)
(* calls Start, each successful Start spawns one periodicSync goroutine,   *)
(* and Stop cancels the context.  A syncAll pass runs through the same     *)
(* steps as in SpecSyncer (RLock, CopyRepos, SyncReturns, Callback).       *)

\* Start calls made in one behaviour
MaxStarts == 2

WorkerNames == <<"worker1", "worker2", "worker3", "worker4">>
\* the periodicSync goroutines that Start can spawn
Workers == { WorkerNames[k] : k \in 1..MaxStarts }
LifeProcs == {"main"} \cup Workers

\* a goroutine that has not been spawned; n counts the Start calls of main,
\* initial the callbacks of the initial pass when the worker was spawned
NotSpawned == [at |-> "none", tick |-> FALSE, n |-> 0, initial |-> 0, late |-> FALSE]

\* the periodicSync goroutines whose loop is running
Running == { w \in Workers : life[w].at \in {"select", "pass"} }

\* the worker the next `go g.periodicSync()` creates
NextWorker == CHOOSE w \in Workers :
                  /\ life[w].at = "none"
                  /\ \A k \in 1..MaxStarts :
                        (WorkerNames[k] = w) =>
                            \A j \in 1..(k - 1) : life[WorkerNames[j]].at # "none"

\* Start is called: the initial syncAll begins
StartCall ==
    /\ life["main"].at = "idle"
    /\ life["main"].n < MaxStarts
    /\ life' = [life EXCEPT !["main"].at = "initial", !["main"].n = @ + 1]
    /\ task' = [task EXCEPT !["main"] = [Idle EXCEPT !.op = "syncAll", !.pc = "rlock"]]
    /\ UNCHANGED <<treeVars, pathVars, catalogVars, mu, ctx>>

\* the initial syncAll has returned: on an error Start returns it, else it
\* starts periodicSync in a new goroutine and returns
StartReturn ==
    /\ life["main"].at = "initial"
    /\ task["main"].pc = "done"
    /\ task' = [task EXCEPT !["main"] = Idle]
    /\ IF task["main"].result = "ok"
       THEN life' = [life EXCEPT !["main"].at = "idle",
                                 ![NextWorker] = [NotSpawned EXCEPT
                                                    !.at = "select",
                                                    !.initial = task["main"].callbacks]]
       ELSE life' = [life EXCEPT !["main"].at = "idle"]
    /\ UNCHANGED <<treeVars, pathVars, catalogVars, mu, ctx>>

\* Stop: g.cancel()
Stop ==
    /\ ctx' = "done"
    /\ UNCHANGED <<treeVars, pathVars, catalogVars, syncerVars, life>>

\* the ticker of a running periodicSync delivers a tick; its channel holds
\* at most one
Tick(w) ==
    /\ w \in Running
    /\ ~life[w].tick
    /\ life' = [life EXCEPT ![w].tick = TRUE]
    /\ UNCHANGED <<treeVars, pathVars, catalogVars, syncerVars, ctx>>

\* select takes the case <-ticker.C and calls syncAll; when <-g.ctx.Done()
\* is ready as well, select may still take this case
SelectTick(w) ==
    /\ life[w].at = "select"
    /\ life[w].tick
    /\ life' = [life EXCEPT ![w].at = "pass", ![w].tick = FALSE,
                            ![w].late = (ctx = "done")]
    /\ task' = [task EXCEPT ![w] = [Idle EXCEPT !.op = "syncAll", !.pc = "rlock"]]
    /\ UNCHANGED <<treeVars, pathVars, catalogVars, mu, ctx>>

\* select takes the case <-g.ctx.Done(): periodicSync returns and the
\* deferred ticker.Stop() runs
SelectDone(w) ==
    /\ life[w].at = "select"
    /\ ctx = "done"
    /\ life' = [life EXCEPT ![w].at = "exited", ![w].tick = FALSE]
    /\ UNCHANGED <<treeVars, pathVars, catalogVars, syncerVars, ctx>>

\* the syncAll of a tick has returned; periodicSync goes back to select
PassReturns(w) ==
    /\ life[w].at = "pass"
    /\ task[w].pc = "done"
    /\ task' = [task EXCEPT ![w] = Idle]
    /\ life' = [life EXCEPT ![w].at = "select"]
    /\ UNCHANGED <<treeVars, pathVars, catalogVars, mu, ctx>>

\* the mirror lists the syncer is constructed with
LifeStarts == {<<>>, <<Url1>>, <<Url3, Url2>>}

InitLifecycle ==
    /\ TreeIdle
    /\ PathIdle
    /\ ctx = "live"
    /\ life = [p \in LifeProcs |-> IF p = "main" THEN [NotSpawned EXCEPT !.at = "idle"]
                                   ELSE NotSpawned]
    /\ mu = Unlocked
    /\ task = [p \in LifeProcs |-> Idle]
    /\ repos \in LifeStarts
    /\ fs = EmptyTree
    /\ gitRepos = RepoNames(repos)
    /\ index = RebuildIndex(fs, gitRepos, {})
    /\ last = NoRequest

NextLifecycle ==
    \/ StartCall
    \/ StartReturn
    \/ Stop
    \/ \E w \in Workers :
        \/ Tick(w)
        \/ SelectTick(w)
        \/ SelectDone(w)
        \/ PassReturns(w)
    \/ \E p \in LifeProcs :
        \/ RLock(p)
        \/ CopyRepos(p)
        \/ \E o \in {"updated", "error"} : SyncReturns(p, o, "flat")
        \/ \E indexOk \in BOOLEAN : Callback(p, indexOk)

SpecLifecycle == InitLifecycle /\ [][NextLifecycle]_vars

\* C11: once Stop has returned (the context is done) no periodicSync
\* goroutine begins a new syncAll pass, and a pass that has begun ends only
\* by returning after its re-index callback.
C11_StopCancelsCycle ==
    [][\A w \in Workers :
          /\ (ctx = "done" /\ life[w].at = "select") => life'[w].at # "pass"
          /\ (life[w].at = "pass" /\ life'[w].at # "pass") =>
                (task[w].pc = "done" /\ task[w].callbacks = 1)]_vars

\* C12: at most one periodicSync goroutine is running, and each one was
\* spawned after the initial syncAll of its Start had run its callback.
C12_OneWorker ==
    /\ Cardinality(Running) <= 1
    /\ \A w \in Workers : life[w].at # "none" => life[w].initial = 1

-----------------------------------------------------------------------------
(* SpecTree: the catalog read operations over a directory tree.  The tree  *)
(* is one of a bounded family; ListSkills, ReadSkill and the operations    *)
(* that resolve an identifier are called on it, and UpdateGitRepos changes *)
(* the enabled mirror names.  Nothing here writes to the tree.             *)

NoFiles == [q \in {} |-> ""]

\* the local directory demo: absent, a skill, a skill whose manifest
\* declares another name, a skill whose manifest does not parse
DemoOptions ==
    { NoFiles,
      (<<"skills", "demo", "SKILL.md">> :> "demo") @@ (<<"skills", "demo", "scripts", "x.txt">> :> "v0"),
      (<<"skills", "demo", "SKILL.md">> :> "tool") @@ (<<"skills", "demo", "scripts", "x.txt">> :> "v0"),
      (<<"skills", "demo", "SKILL.md">> :> Garbage) }

\* a manifest at the root of the clone of the mirror repo
RepoRootOptions == { NoFiles, <<"skills", "repo", "SKILL.md">> :> "repo" }
\* the skill directory repo/tool
RepoToolOptions ==
    { NoFiles,
      (<<"skills", "repo", "tool", "SKILL.md">> :> "tool")
          @@ (<<"skills", "repo", "tool", "scripts", "x.txt">> :> "v0"),
      <<"skills", "repo", "tool", "SKILL.md">> :> Garbage }
\* the skill directory repo/sub/tool
RepoSubToolOptions ==
    { NoFiles,
      <<"skills", "repo", "sub", "tool", "SKILL.md">> :> "tool",
      <<"skills", "repo", "sub", "tool", "SKILL.md">> :> Garbage }
\* a skill directory below the plain local directory sub
LocalNestedOptions == { NoFiles, <<"skills", "sub", "tool", "SKILL.md">> :> "tool" }
\* a skill directory three levels below the root
LocalDeepOptions == { NoFiles, <<"skills", "demo", "sub", "tool", "SKILL.md">> :> "tool" }

\* the clone of repo holds its .git directory
CloneOf(files) == TreeOf(files) @@ (<<"skills", "repo">> :> DirNode)
                                @@ (<<"skills", "repo", GitDir>> :> DirNode)

\* the trees: local directories only, or the clone of repo next to demo
Trees ==
    { TreeOf(d @@ n @@ e) @@ EmptyTree :
        d \in DemoOptions, n \in LocalNestedOptions, e \in LocalDeepOptions }
    \cup
    { TreeOf(d) @@ CloneOf(r @@ t @@ u) @@ EmptyTree :
        d \in { o \in DemoOptions : \A q \in DOMAIN o : o[q] # Garbage /\ o[q] # "tool" },
        r \in RepoRootOptions, t \in RepoToolOptions, u \in RepoSubToolOptions }

\* the top-level directories that are clones of a mirror
Mirrors(f) == { n \in Names : IsDirAt(f, <<"skills", n, GitDir>>) }

\* the enabled mirror names the manager can be given
EnabledSets == { <<>>, <<"repo">> }

\* the identifiers callers resolve
ResolveIDs == { <<"demo">>, <<"repo">>, <<"repo", "tool">>, <<"sub", "tool">>,
                <<"demo", "sub", "tool">> }

\* the resource paths callers ask for
ResourceRequests == { <<"scripts", "x.txt">>, <<"x.txt">> }

ResourceDirs == {"scripts", "references", "assets"}

\* the paths below dir, relative to it
Below(f, dir) ==
    { SubSeq(q, Len(dir) + 1, Len(q)) : q \in { r \in DOMAIN f : r # dir /\ IsPrefixPath(dir, r) } }

\* ListSkillResources: the files in the resource directories of the skill
ListSkillResources(f, skillID) ==
    IF ~getSkillPath(f, skillID).ok THEN [ok |-> FALSE, err |-> "notfound", path |-> <<>>, out |-> {}]
    ELSE [ok |-> TRUE, err |-> "", path |-> getSkillPath(f, skillID).path,
          out |-> { q \in Below(f, getSkillPath(f, skillID).path) :
                      /\ q[1] \in ResourceDirs
                      /\ Len(q) > 1
                      /\ IsFileAt(f, getSkillPath(f, skillID).path \o q) }]

\* ReadSkillResource: the content of one resource file
ReadSkillResource(f, skillID, resourcePath) ==
    IF ValidateResourcePath(JoinChars(resourcePath)) # "ok"
    THEN [ok |-> FALSE, err |-> "path", path |-> <<>>, out |-> {}]
    ELSE IF ~getSkillPath(f, skillID).ok
    THEN [ok |-> FALSE, err |-> "notfound", path |-> <<>>, out |-> {}]
    ELSE IF ~ReadFile(f, Join(getSkillPath(f, skillID).path, resourcePath)).ok
    THEN [ok |-> FALSE, err |-> "read", path |-> getSkillPath(f, skillID).path, out |-> {}]
    ELSE [ok |-> TRUE, err |-> "", path |-> getSkillPath(f, skillID).path,
          out |-> {<<ReadFile(f, Join(getSkillPath(f, skillID).path, resourcePath)).data>>}]

\* GetSkillResourceInfo: the description of one resource file
GetSkillResourceInfo(f, skillID, resourcePath) ==
    IF ValidateResourcePath(JoinChars(resourcePath)) # "ok"
    THEN [ok |-> FALSE, err |-> "path", path |-> <<>>, out |-> {}]
    ELSE IF ~getSkillPath(f, skillID).ok
    THEN [ok |-> FALSE, err |-> "notfound", path |-> <<>>, out |-> {}]
    ELSE IF ~Stat(f, Join(getSkillPath(f, skillID).path, resourcePath))
    THEN [ok |-> FALSE, err |-> "stat", path |-> getSkillPath(f, skillID).path, out |-> {}]
    ELSE IF IsDirAt(f, Join(getSkillPath(f, skillID).path, resourcePath))
    THEN [ok |-> FALSE, err |-> "isdir", path |-> getSkillPath(f, skillID).path, out |-> {}]
    ELSE [ok |-> TRUE, err |-> "", path |-> getSkillPath(f, skillID).path,
          out |-> {resourcePath}]

\* the directory ExportSkill archives
ExportPath(f, skillID) ==
    IF Len(skillID) = 2
    THEN findSkillDirByName(f, Join(skillsDir, <<skillID[1]>>), skillID[2])
    ELSE IF Len(skillID) > 2 THEN [ok |-> FALSE, path |-> <<>>]
    ELSE IF Stat(f, Append(Join(skillsDir, skillID), ManifestName))
    THEN [ok |-> TRUE, path |-> Join(skillsDir, skillID)]
    ELSE [ok |-> FALSE, path |-> <<>>]

\* ExportSkill: the names of the archive entries, skillName/relativePath
ExportSkill(f, skillID) ==
    IF ~ExportPath(f, skillID).ok
    THEN [ok |-> FALSE, err |-> IF Len(skillID) > 2 THEN "invalid" ELSE "notfound",
          path |-> <<>>, out |-> {}]
    ELSE [ok |-> TRUE, err |-> "", path |-> ExportPath(f, skillID).path,
          out |-> { <<Base(ExportPath(f, skillID).path)>> \o q :
                        q \in Below(f, ExportPath(f, skillID).path) }]

\* what an operation on an identifier returned
Outcome(op, id, r) ==
    [op |-> op, id |-> id, ok |-> r.ok, err |-> r.err,
     path |-> IF r.ok THEN r.SourcePath ELSE <<>>,
     readOnly |-> IF r.ok THEN r.ReadOnly ELSE FALSE,
     name |-> IF r.ok THEN r.Metadata ELSE "",
     out |-> {}]

\* what an operation that resolves an identifier to a directory returned
Resolved(op, id, r) ==
    [op |-> op, id |-> id, ok |-> r.ok, err |-> r.err, path |-> r.path,
     readOnly |-> FALSE, name |-> "", out |-> r.out]

\* ListSkills is called; prior keeps the result of the call before
ListSkillsCall ==
    /\ listed' = [g |-> gitRepos, skills |-> ListSkills(fs, gitRepos),
                  prior |-> IF listed = <<>> THEN <<>>
                            ELSE [g |-> listed.g, skills |-> listed.skills]]
    /\ UNCHANGED <<lifeVars, pathVars, catalogVars, syncerVars, got>>

\* ReadSkill is called
ReadSkillCall(id) ==
    /\ got' = Outcome("ReadSkill", id, ReadSkill(fs, id))
    /\ UNCHANGED <<lifeVars, pathVars, catalogVars, syncerVars, listed>>

\* ListSkillResources is called
ListSkillResourcesCall(id) ==
    /\ got' = Resolved("ListSkillResources", id, ListSkillResources(fs, id))
    /\ UNCHANGED <<lifeVars, pathVars, catalogVars, syncerVars, listed>>

\* ReadSkillResource is called
ReadSkillResourceCall(id, resourcePath) ==
    /\ got' = Resolved("ReadSkillResource", id, ReadSkillResource(fs, id, resourcePath))
    /\ UNCHANGED <<lifeVars, pathVars, catalogVars, syncerVars, listed>>

\* GetSkillResourceInfo is called
GetSkillResourceInfoCall(id, resourcePath) ==
    /\ got' = Resolved("GetSkillResourceInfo", id, GetSkillResourceInfo(fs, id, resourcePath))
    /\ UNCHANGED <<lifeVars, pathVars, catalogVars, syncerVars, listed>>

\* ExportSkill is called
ExportSkillCall(id) ==
    /\ got' = Resolved("ExportSkill", id, ExportSkill(fs, id))
    /\ UNCHANGED <<lifeVars, pathVars, catalogVars, syncerVars, listed>>

\* UpdateGitRepos replaces the enabled mirror names
UpdateGitRepos(gitRepoNames) ==
    /\ gitRepos' = gitRepoNames
    /\ UNCHANGED <<lifeVars, pathVars, syncerVars, treeVars, fs, repos, index, last>>

InitTree ==
    /\ LifeIdle
    /\ PathIdle
    /\ SyncerIdle
    /\ TreeIdle
    /\ fs \in Trees
    /\ gitRepos \in EnabledSets
    /\ repos = <<>>
    /\ index = {}
    /\ last = NoRequest

NextTree ==
    \/ ListSkillsCall
    \/ \E id \in ResolveIDs : ReadSkillCall(id)
    \/ \E id \in ResolveIDs : ListSkillResourcesCall(id)
    \/ \E id \in ResolveIDs, rp \in ResourceRequests : ReadSkillResourceCall(id, rp)
    \/ \E id \in ResolveIDs, rp \in ResourceRequests : GetSkillResourceInfoCall(id, rp)
    \/ \E id \in ResolveIDs : ExportSkillCall(id)
    \/ \E g \in EnabledSets : UpdateGitRepos(g)

SpecTree == InitTree /\ [][NextTree]_vars

\* C13: every identifier ListSkills returned is read by ReadSkill on the
\* same tree, and the manifest name read is the identifier's last segment.
C13_ListedIsReadable ==
    (/\ listed # <<>>
     /\ got # <<>>
     /\ got.op = "ReadSkill"
     /\ got.id \in IDs(listed.skills))
    => (got.ok /\ got.name = got.id[Len(got.id)])

\* C14: no two skills of one ListSkills result have the same identifier.
C14_IdentifiersUnique ==
    listed # <<>> =>
        \A i, j \in 1..Len(listed.skills) :
            listed.skills[i].ID = listed.skills[j].ID => i = j

\* the directory lies under root/<m> for an enabled mirror name m
UnderEnabledMirror(g, dir) ==
    \E k \in 1..Len(g) : IsPrefixPath(Append(skillsDir, g[k]), dir)

\* C15: a skill returned by ListSkills or by ReadSkill is read-only exactly
\* when its source directory lies under the directory of an enabled mirror.
C15_ReadOnlyIffUnderMirror ==
    /\ listed # <<>> =>
          \A k \in 1..Len(listed.skills) :
              listed.skills[k].ReadOnly
                  <=> UnderEnabledMirror(listed.g, listed.skills[k].SourcePath)
    /\ (got # <<>> /\ got.op = "ReadSkill" /\ got.ok) =>
          (got.readOnly <=> UnderEnabledMirror(gitRepos, got.path))

\* the directory holds a manifest that parses and declares the directory's name
ValidManifestAt(f, dir) ==
    /\ IsFileAt(f, Append(dir, ManifestName))
    /\ ParseFrontmatter(f[Append(dir, ManifestName)].data).ok
    /\ ParseFrontmatter(f[Append(dir, ManifestName)].data).name = Base(dir)

\* the directories ListSkills is to return for the enabled names g: at any
\* depth below the root, with a valid manifest, not under a disabled mirror
Listable(f, g) ==
    { dir \in DOMAIN f :
        /\ Len(dir) > Len(skillsDir)
        /\ IsPrefixPath(skillsDir, dir)
        /\ ValidManifestAt(f, dir)
        /\ dir[Len(skillsDir) + 1] \in Mirrors(f) => SeqContains(g, dir[Len(skillsDir) + 1]) }

\* C16: ListSkills returns exactly one skill for each directory with a valid
\* manifest that is not under a disabled mirror; the skill is mirrored
\* (mirrorName/baseName) iff the first segment is an enabled mirror name and
\* local (baseName) otherwise.
C16_ListAllExact ==
    listed # <<>> =>
        /\ \A dir \in Listable(fs, listed.g) :
              Cardinality({ k \in 1..Len(listed.skills) : listed.skills[k].SourcePath = dir }) = 1
        /\ \A k \in 1..Len(listed.skills) :
              /\ listed.skills[k].SourcePath \in Listable(fs, listed.g)
              /\ listed.skills[k].ID =
                    IF SeqContains(listed.g, listed.skills[k].SourcePath[Len(skillsDir) + 1])
                    THEN <<listed.skills[k].SourcePath[Len(skillsDir) + 1],
                           Base(listed.skills[k].SourcePath)>>
                    ELSE <<Base(listed.skills[k].SourcePath)>>

\* the identifiers of the listed skills whose directory is in the clone of m
IDsOfMirror(skills, m) ==
    { skills[k].ID : k \in { j \in 1..Len(skills) :
                               IsPrefixPath(Append(skillsDir, m), skills[j].SourcePath) } }

\* C17: UpdateGitRepos changes no file; a listing made while a mirror is
\* disabled holds no skill of it; a listing made with the mirror enabled
\* again holds the identifiers the mirror had in the listing before.
C17_DisableHidesEnableRestores ==
    [][/\ gitRepos' # gitRepos => fs' = fs
       /\ listed' # listed =>
             \A m \in Mirrors(fs') :
                 /\ ~SeqContains(listed'.g, m) => IDsOfMirror(listed'.skills, m) = {}
                 /\ (/\ listed'.prior # <<>>
                     /\ SeqContains(listed'.g, m)
                     /\ SeqContains(listed'.prior.g, m))
                    => IDsOfMirror(listed'.skills, m) = IDsOfMirror(listed'.prior.skills, m)]_vars

\* the directories named tool in the clone of repo that hold a manifest
RepoToolDirs(f) ==
    { dir \in DOMAIN f :
        /\ Len(dir) > 2
        /\ IsPrefixPath(<<"skills", "repo">>, dir)
        /\ Base(dir) = "tool"
        /\ IsFileAt(f, Append(dir, ManifestName)) }

C19_LongIdentifiersRejected ==
    /\ (got # <<>> /\ Len(got.id) > 2) => ~got.ok
    /\ listed # <<>> => \A k \in 1..Len(listed.skills) : Len(listed.skills[k].ID) <= 2

\* the identifier resolves to a directory whose manifest declares a name
\* other than the directory's base name
NameMismatch(f, id) ==
    /\ getSkillPath(f, id).ok
    /\ ParseFrontmatter(ReadFile(f, Append(getSkillPath(f, id).path, ManifestName)).data).ok
    /\ ParseFrontmatter(ReadFile(f, Append(getSkillPath(f, id).path, ManifestName)).data).name
          # Base(getSkillPath(f, id).path)

\* C20: an operation that resolves an identifier to a directory whose
\* manifest declares another name fails with the name-mismatch error, and
\* no operation changes the tree.
C20_NameMismatchIsAnError ==
    [][/\ fs' = fs
       /\ (got' # got /\ got'.err # "path" /\ NameMismatch(fs, got'.id)) =>
             (~got'.ok /\ got'.err = "mismatch")]_vars

-----------------------------------------------------------------------------
(* SpecArchive: ExportSkill on a tree of the catalog, then ImportSkill of  *)
(* the archive it returned into a destination root.                        *)

\* filepath.Walk: the path itself first, then the entries of a directory
\* in filename order, files and directories alike
RECURSIVE WalkAll(_, _)
WalkAll(f, pending) ==
    IF pending = <<>> THEN <<>>
    ELSE LET d == Head(pending)
             entries == ReadDir(f, d)
         IN IF ~IsDirAt(f, d) THEN <<d>> \o WalkAll(f, Tail(pending))
            ELSE <<d>> \o WalkAll(f, [k \in 1..Len(entries) |-> Append(d, entries[k])]
                                      \o Tail(pending))

\* the tar entry the walk callback of ExportSkill writes for a path
ExportEntry(f, skillPath, p) ==
    [name |-> <<Base(skillPath)>> \o SubSeq(p, Len(skillPath) + 1, Len(p)),
     type |-> IF IsDirAt(f, p) THEN TypeDir ELSE TypeReg,
     data |-> IF IsDirAt(f, p) THEN "" ELSE f[p].data]

\* the archive of ExportSkill: one entry for each walked path but the
\* skill directory itself
ExportEntries(f, skillPath, walk) ==
    [k \in 1..(Len(walk) - 1) |-> ExportEntry(f, skillPath, walk[k + 1])]

ExportArchive(f, skillID) ==
    IF ~ExportPath(f, skillID).ok THEN <<>>
    ELSE ExportEntries(f, ExportPath(f, skillID).path,
                       WalkAll(f, <<ExportPath(f, skillID).path>>))

\* a skill with a file whose name holds two dots, a skill with an empty
\* resource directory
DotDotTree == TreeOf((<<"skills", "demo", "SKILL.md">> :> "demo")
                     @@ (<<"skills", "demo", "a..b">> :> "v0")) @@ EmptyTree
EmptyDirTree == TreeOf(<<"skills", "demo", "SKILL.md">> :> "demo")
                @@ (<<"skills", "demo", "scripts">> :> DirNode) @@ EmptyTree

ArchiveTrees == Trees \cup {DotDotTree, EmptyDirTree}

\* no export yet
NoTrip == [op |-> "none", id |-> <<>>, listed |-> FALSE, path |-> <<>>, archive |-> <<>>,
           dest |-> EmptyTree, ok |-> FALSE, err |-> "", name |-> "", tree |-> EmptyTree]

\* domain.ExportSkill(skillID, skillsDir) on the catalog's tree
ExportTrip(id) ==
    /\ got = NoTrip
    /\ got' = [NoTrip EXCEPT !.op = "ExportSkill", !.id = id,
                             !.listed = id \in IDs(ListSkills(fs, gitRepos)),
                             !.path = ExportPath(fs, id).path,
                             !.ok = ExportPath(fs, id).ok,
                             !.err = ExportSkill(fs, id).err,
                             !.archive = ExportArchive(fs, id)]
    /\ UNCHANGED <<lifeVars, pathVars, catalogVars, syncerVars, listed>>

\* domain.ImportSkill(archiveData, dest) of the archive just exported
ImportTrip(dest) ==
    LET r == ImportSkill(dest, got.archive, 0) IN
    /\ got.op = "ExportSkill"
    /\ got.ok
    /\ got' = [got EXCEPT !.op = "ImportSkill", !.dest = dest, !.ok = r.ok,
                          !.err = r.err, !.name = r.name, !.tree = r.fs]
    /\ UNCHANGED <<lifeVars, pathVars, catalogVars, syncerVars, listed>>

InitArchive ==
    /\ LifeIdle
    /\ PathIdle
    /\ SyncerIdle
    /\ listed = <<>>
    /\ got = NoTrip
    /\ fs \in ArchiveTrees
    /\ gitRepos \in EnabledSets
    /\ repos = <<>>
    /\ index = {}
    /\ last = NoRequest

NextArchive ==
    \/ \E id \in ResolveIDs : ExportTrip(id)
    \/ \E dest \in ImportTrees : ImportTrip(dest)

SpecArchive == InitArchive /\ [][NextArchive]_vars

\* the files and directories below dir with their content, relative to it
Content(f, dir) == [q \in Below(f, dir) |-> f[dir \o q]]

\* C21: when a listed identifier is exported and the archive is imported
\* into a root without a directory of the skill's base name, the import
\* succeeds, returns the base name and creates under root/<baseName> the
\* same relative files and directories with the same bytes.
C21_RoundTrip ==
    (/\ got.op = "ImportSkill"
     /\ got.listed
     /\ ~Stat(got.dest, Join(skillsDir, <<Base(got.path)>>)))
    => /\ got.ok
       /\ got.name = Base(got.path)
       /\ Content(got.tree, Join(skillsDir, <<Base(got.path)>>)) = Content(fs, got.path)

-----------------------------------------------------------------------------
(* SpecSearch: SearchSkills over the index the mirror requests, the        *)
(* enabled-set updates and the rebuilds leave, on a tree that may also be  *)
(* edited from outside the server.                                         *)

\* GitSyncer.AddRepo run to its end by one caller
AddRepo(f, rs, g, idx, url, outcome, shape, indexOk) ==
    IF SeqContains(rs, url) THEN [ok |-> FALSE, repos |-> rs, fs |-> f, index |-> idx]
    ELSE IF ~syncRepo(f, url, outcome, shape).ok
    THEN [ok |-> FALSE, repos |-> RemoveFirst(Append(rs, url), url),
          fs |-> syncRepo(f, url, outcome, shape).fs, index |-> idx]
    ELSE [ok |-> indexOk, repos |-> Append(rs, url),
          fs |-> syncRepo(f, url, outcome, shape).fs,
          index |-> onUpdate(syncRepo(f, url, outcome, shape).fs, g, idx, indexOk)]

\* updateGitRepo once AddRepo of the new URL has returned: on an error the
\* old URL is added again and the reply is 400, else the enabled names are
\* replaced and the reply is 200
updateGitRepoAdded(foundURL, added, restoreOutcome, shape, restoreIndexOk) ==
    LET restored == AddRepo(added.fs, added.repos, gitRepos, added.index, foundURL,
                            restoreOutcome, shape, restoreIndexOk)
    IN IF ~added.ok
       THEN /\ repos' = restored.repos
            /\ fs' = restored.fs
            /\ index' = restored.index
            /\ last' = Reply("updateGitRepo", <<>>, 400)
            /\ UNCHANGED gitRepos
       ELSE /\ repos' = added.repos
            /\ fs' = added.fs
            /\ index' = added.index
            /\ gitRepos' = RepoNames(added.repos)
            /\ last' = Reply("updateGitRepo", <<>>, 200)

updateGitRepo(id, url, outcome, shape, indexOk, restoreOutcome, restoreIndexOk) ==
    LET foundURL == FindByID(repos, id)
    IN /\ last.n < MaxRequests
       /\ UNCHANGED <<lifeVars, treeVars, pathVars, syncerVars>>
       /\ IF foundURL = ""
          THEN /\ last' = Reply("updateGitRepo", <<>>, 404)
               /\ UNCHANGED <<fs, gitRepos, repos, index>>
          ELSE IF url # "" /\ url # foundURL
          THEN updateGitRepoAdded(foundURL,
                                  AddRepo(fs, RemoveFirst(repos, foundURL), gitRepos, index,
                                          url, outcome, shape, indexOk),
                                  restoreOutcome, shape, restoreIndexOk)
          ELSE /\ gitRepos' = RepoNames(repos)
               /\ last' = Reply("updateGitRepo", <<>>, 200)
               /\ UNCHANGED <<fs, repos, index>>

\* A loop that ends at the first hit that cannot be read
RECURSIVE ReadHitsUntilError(_, _)
ReadHitsUntilError(f, results) ==
    IF results = <<>> THEN <<>>
    ELSE IF ReadSkill(f, Head(results)).ok
    THEN <<ReadSkill(f, Head(results))>> \o ReadHitsUntilError(f, Tail(results))
    ELSE <<>>

\* the loop of SearchSkills: ReadSkill for each hit, a hit that cannot be
\* read is skipped
RECURSIVE ReadHits(_, _)
ReadHits(f, results) ==
    IF results = <<>> THEN <<>>
    ELSE IF ReadSkill(f, Head(results)).ok
    THEN <<ReadSkill(f, Head(results))>> \o ReadHits(f, Tail(results))
    ELSE ReadHits(f, Tail(results))

\* Searcher.Search: the hits are documents of the index, each once, in the
\* order of their scores
Rankings(idx) ==
    { h \in UNION { [1..n -> idx] : n \in 0..Cardinality(idx) } :
        \A i, j \in 1..Len(h) : h[i] = h[j] => i = j }

NoSearch == [op |-> "none", hits |-> <<>>, skills |-> <<>>]

\* SearchSkills is called
SearchSkills(results) ==
    /\ got' = [op |-> "SearchSkills", hits |-> results, skills |-> ReadHits(fs, results)]
    /\ UNCHANGED <<lifeVars, pathVars, catalogVars, syncerVars, listed>>

\* the skills directory is edited from outside the server: a manifest is
\* overwritten with text that does not parse
BreakManifest(dir) ==
    /\ IsFileAt(fs, Append(dir, ManifestName))
    /\ fs' = WriteFile(fs, Append(dir, ManifestName), Garbage).fs
    /\ UNCHANGED <<lifeVars, treeVars, pathVars, syncerVars, gitRepos, repos, index, last>>

\* the skills directory is edited from outside the server: a directory is
\* removed
RemoveDir(dir) ==
    /\ IsDirAt(fs, dir)
    /\ dir # skillsDir
    /\ fs' = RemoveAll(fs, dir)
    /\ UNCHANGED <<lifeVars, treeVars, pathVars, syncerVars, gitRepos, repos, index, last>>

EditedDirs == { <<"skills", "demo">>, <<"skills", "repo", "sub", "tool">> }

InitSearch ==
    /\ LifeIdle
    /\ PathIdle
    /\ SyncerIdle
    /\ listed = <<>>
    /\ got = NoSearch
    /\ \E start \in CatalogStarts :
          /\ fs = start.fs
          /\ repos = start.repos
          /\ gitRepos = RepoNames(start.repos)
          /\ index = RebuildIndex(start.fs, RepoNames(start.repos), {})
    /\ last = NoRequest

\* how the AddRepo that restores the old URL goes: its pull and its rebuild
RestoreCases == { <<"uptodate", TRUE>>, <<"uptodate", FALSE>>, <<"error", TRUE>> }

\* The requests, rebuilds and edits come first; a search is the last step
\* of a behaviour, so that every state they reach is searched.
NextSearch ==
    \/ /\ got = NoSearch
       /\ \E url \in RequestURLs, o \in GitOutcomes, sh \in Shapes, indexOk \in BOOLEAN :
             addGitRepo(url, o, sh, indexOk)
    \/ /\ got = NoSearch
       /\ \E id \in RepoIDs, url \in RequestURLs, o \in GitOutcomes, sh \in Shapes,
             indexOk \in BOOLEAN, rc \in RestoreCases :
             updateGitRepo(id, url, o, sh, indexOk, rc[1], rc[2])
    \/ /\ got = NoSearch
       /\ \E id \in RepoIDs, indexOk \in BOOLEAN : deleteGitRepo(id, indexOk)
    \/ /\ got = NoSearch
       /\ \E o \in GitOutcomes, sh \in Shapes, indexOk \in BOOLEAN : syncAll(o, sh, indexOk)
    \/ /\ got = NoSearch
       /\ \E dir \in EditedDirs : BreakManifest(dir)
    \/ /\ got = NoSearch
       /\ \E dir \in EditedDirs : RemoveDir(dir)
    \/ /\ got = NoSearch
       /\ \E results \in Rankings(index) : SearchSkills(results)

SpecSearch == InitSearch /\ [][NextSearch]_vars

\* C40: a create-skill request whose name is a directory that already
\* exists under the root is answered with an error and leaves the tree as
\* it was: neither the write of the manifest nor the cleanup after a failed
\* write changes what was there.
C40_ExistingDirectoryKept ==
    [][(/\ last'.n = last.n + 1
        /\ last'.op = "createSkill"
        /\ IsDirAt(fs, Join(skillsDir, last'.name)))
       => (last'.status # 201 /\ fs' = fs)]_vars

MirrorRequests == {"addGitRepo", "updateGitRepo", "deleteGitRepo"}

\* C37: after every add-mirror, update-mirror or delete-mirror request,
\* whether it succeeded or failed, the enabled mirror names of the catalog
\* are the directory names of the URLs in the syncer's list, in order.
C37_MirrorViewsAgree ==
    last.op \in MirrorRequests => gitRepos = RepoNames(repos)

\* C25: the skills SearchSkills returns are the hits ReadSkill can read at
\* the time of the call, in the order of the hits, each as ReadSkill
\* returns it; a hit that cannot be read is left out and stops nothing.
C25_StaleHitsOmitted ==
    got.op = "SearchSkills" =>
        /\ Len(got.skills) = Len(SelectSeq(got.hits, LAMBDA h : ReadSkill(fs, h).ok))
        /\ \A k \in 1..Len(got.skills) :
              got.skills[k] =
                  ReadSkill(fs, SelectSeq(got.hits, LAMBDA h : ReadSkill(fs, h).ok)[k])

\* C25 witness: the first hit is a skill whose directory is gone, and the
\* hit after it has been returned
C25_Witness ==
    /\ got.op = "SearchSkills"
    /\ Len(got.hits) = 2
    /\ ~Exists(fs, Join(skillsDir, got.hits[1]))
    /\ ~ReadSkill(fs, got.hits[1]).ok
    /\ Len(got.skills) = 1
    /\ got.skills[1].ID = got.hits[2]

\* C26: SearchSkills returns no skill whose identifier ListSkills does not
\* return in the same state.
C26_SearchWithinListAll ==
    got.op = "SearchSkills" =>
        \A k \in 1..Len(got.skills) : got.skills[k].ID \in IDs(ListSkills(fs, gitRepos))

-----------------------------------------------------------------------------
(* SpecMirror: mirrors are added and deleted through the REST handlers and *)
(* the skills are listed; the names and ids of the mirrors come from URLs. *)

MirrorURLs == {Url1, Url3, Url4, Url5}
MirrorIDs == { GenerateID(u) : u \in MirrorURLs }

InitMirror ==
    /\ LifeIdle
    /\ PathIdle
    /\ SyncerIdle
    /\ TreeIdle
    /\ fs = EmptyTree
    /\ gitRepos = <<>>
    /\ repos = <<>>
    /\ index = {}
    /\ last = NoRequest

NextMirror ==
    \/ \E url \in MirrorURLs, o \in {"updated", "error"}, sh \in Shapes, indexOk \in BOOLEAN :
          addGitRepo(url, o, sh, indexOk)
    \/ \E id \in MirrorIDs, indexOk \in BOOLEAN : deleteGitRepo(id, indexOk)
    \/ ListSkillsCall

SpecMirror == InitMirror /\ [][NextMirror]_vars

\* C29: every identifier ListSkills returns has one or two segments, and
\* each segment, the mirror name as well as the skill name, is a valid name:
\* lowercase alphanumerics and inner hyphens, 1 to 64 characters, no
\* leading, trailing or double hyphen.
C29_IdentifiersConform ==
    listed # <<>> =>
        \A k \in 1..Len(listed.skills) :
            /\ Len(listed.skills[k].ID) \in {1, 2}
            /\ \A i \in 1..Len(listed.skills[k].ID) :
                  ValidateSkillName(Chars(listed.skills[k].ID[i]))

\* C30: no two different URLs of the mirror list have the same id, so that
\* an id names one mirror.
C30_IDsDistinct ==
    \A i, j \in 1..Len(repos) :
        GenerateID(repos[i]) = GenerateID(repos[j]) => repos[i] = repos[j]

\* C38: no two different URLs of the mirror list have the same working
\* directory name, so that a sync, a directory removal or the read-only
\* classification of one mirror never touches the directory of another.
C38_DirectoriesDistinct ==
    \A i, j \in 1..Len(repos) :
        ExtractRepoName(repos[i]) = ExtractRepoName(repos[j]) => i = j

-----------------------------------------------------------------------------
(* SpecResource: the resources of a skill are listed, read and described.  *)
(* A file's content is a sequence of bytes; the tree is one of a bounded   *)
(* family and nothing here writes to it.                                   *)

\* how many bytes of a file the classification looks at
SniffLen == 512

\* the bytes of the file contents of the family: text, a NUL byte at the
\* second place, a NUL byte right after the first SniffLen bytes, nothing
Bytes(d) ==
    CASE d = "v0"      -> <<118, 48>>
      [] d = "bin"     -> <<1, 0, 2, 3>>
      [] d = "latenul" -> [k \in 1..(SniffLen + 1) |-> IF k = SniffLen + 1 THEN 0 ELSE 97]
      [] OTHER         -> <<>>

\* filepath.Ext: the suffix from the last dot of the name, "" without a dot
Ext(cs) ==
    IF \A k \in 1..Len(cs) : cs[k] # "."
    THEN <<>>
    ELSE SubSeq(cs, CHOOSE k \in 1..Len(cs) :
                        cs[k] = "." /\ \A j \in (k + 1)..Len(cs) : cs[j] # ".",
                Len(cs))

\* mime.TypeByExtension over the extensions of the family: a MIME type is
\* the pair of its type and the rest, <<>> stands for the empty string
TypeByExtension(ext) ==
    CASE ext = <<".", "c", "s", "s">> -> <<"text", "css; charset=utf-8">>
      [] ext = <<".", "p", "n", "g">> -> <<"image", "png">>
      [] OTHER -> <<>>

textMimeTypes ==
    { <<"application", "json">>, <<"application", "xml">>, <<"application", "javascript">>,
      <<"application", "x-sh">>, <<"application", "x-python">>, <<"application", "x-yaml">>,
      <<"application", "x-toml">> }

\* IsTextFile: a text/ type or one of the text-based types
IsTextFile(mimeType) ==
    \/ (Len(mimeType) > 0 /\ mimeType[1] = "text")
    \/ mimeType \in textMimeTypes

\* isTextContent: no NUL byte among the first 512 bytes
isTextContent(content) ==
    \A i \in 1..(IF Len(content) > SniffLen THEN SniffLen ELSE Len(content)) : content[i] # 0

\* DetectMimeType: the extension first, the content only for an extension
\* the table does not know
DetectMimeType(filename, content) ==
    IF TypeByExtension(Ext(Chars(filename))) = <<>>
    THEN IF Len(content) > 0 /\ isTextContent(content)
         THEN <<"text", "plain">>
         ELSE <<"application", "octet-stream">>
    ELSE TypeByExtension(Ext(Chars(filename)))

\* GetResourceType: from the first directory of the path
GetResourceType(resourcePath) ==
    IF HasPrefix(JoinChars(resourcePath), ScriptsPrefix) THEN "script"
    ELSE IF HasPrefix(JoinChars(resourcePath), ReferencesPrefix) THEN "reference"
    ELSE "asset"

\* base64.StdEncoding.EncodeToString: the 6-bit values of the encoding,
\* 64 for the padding character
ByteAt(b, i) == IF i <= Len(b) THEN b[i] ELSE 0
EncodeToString(b) ==
    [k \in 1..(4 * ((Len(b) + 2) \div 3)) |->
        CASE (k - 1) % 4 = 0 -> ByteAt(b, 3 * ((k - 1) \div 4) + 1) \div 4
          [] (k - 1) % 4 = 1 -> (ByteAt(b, 3 * ((k - 1) \div 4) + 1) % 4) * 16
                                    + ByteAt(b, 3 * ((k - 1) \div 4) + 2) \div 16
          [] (k - 1) % 4 = 2 -> IF 3 * ((k - 1) \div 4) + 2 > Len(b) THEN 64
                                ELSE (ByteAt(b, 3 * ((k - 1) \div 4) + 2) % 16) * 4
                                    + ByteAt(b, 3 * ((k - 1) \div 4) + 3) \div 64
          [] OTHER -> IF 3 * ((k - 1) \div 4) + 3 > Len(b) THEN 64
                      ELSE ByteAt(b, 3 * ((k - 1) \div 4) + 3) % 64]

\* the SkillResource of the file at resourcePath below skillPath, as
\* ListSkillResources and listResourcesInDir build it from the whole file
ListedResource(f, skillPath, resourcePath) ==
    [Type |-> GetResourceType(resourcePath),
     Path |-> resourcePath,
     Name |-> Base(resourcePath),
     Size |-> Len(Bytes(f[skillPath \o resourcePath].data)),
     MimeType |-> DetectMimeType(Base(resourcePath), Bytes(f[skillPath \o resourcePath].data)),
     Readable |-> IsTextFile(DetectMimeType(Base(resourcePath),
                                            Bytes(f[skillPath \o resourcePath].data)))]

\* ListSkillResources with the SkillResource of every file
ListResources(f, skillID) ==
    [ok |-> ListSkillResources(f, skillID).ok,
     out |-> { ListedResource(f, ListSkillResources(f, skillID).path, q) :
                 q \in ListSkillResources(f, skillID).out }]

\* the ResourceContent ReadSkillResource builds from the bytes read
ResourceContent(resourcePath, content) ==
    IF IsTextFile(DetectMimeType(Base(resourcePath), content))
    THEN [Content |-> content, Encoding |-> "utf-8",
          MimeType |-> DetectMimeType(Base(resourcePath), content), Size |-> Len(content)]
    ELSE [Content |-> EncodeToString(content), Encoding |-> "base64",
          MimeType |-> DetectMimeType(Base(resourcePath), content), Size |-> Len(content)]

\* ReadSkillResource with the ResourceContent it returns
ReadResource(f, skillID, resourcePath) ==
    IF ~ReadSkillResource(f, skillID, resourcePath).ok
    THEN [ok |-> FALSE, err |-> ReadSkillResource(f, skillID, resourcePath).err, out |-> <<>>]
    ELSE [ok |-> TRUE, err |-> "",
          out |-> ResourceContent(resourcePath,
                     Bytes(ReadFile(f, Join(ReadSkillResource(f, skillID, resourcePath).path,
                                            resourcePath)).data))]

\* the first n bytes of a file, as file.Read into a buffer of n bytes gives
ReadPrefix(content, n) == SubSeq(content, 1, IF Len(content) > n THEN n ELSE Len(content))

\* GetSkillResourceInfo with the SkillResource it returns: the type is
\* detected from the first 512 bytes, the size is the file's
ResourceInfo(f, skillID, resourcePath) ==
    IF ~GetSkillResourceInfo(f, skillID, resourcePath).ok
    THEN [ok |-> FALSE, err |-> GetSkillResourceInfo(f, skillID, resourcePath).err, out |-> <<>>]
    ELSE [ok |-> TRUE, err |-> "",
          out |-> [Type |-> GetResourceType(resourcePath),
                   Path |-> resourcePath,
                   Name |-> Base(resourcePath),
                   Size |-> Len(Bytes(f[Join(GetSkillResourceInfo(f, skillID, resourcePath).path,
                                             resourcePath)].data)),
                   MimeType |-> DetectMimeType(Base(resourcePath),
                       ReadPrefix(Bytes(f[Join(GetSkillResourceInfo(f, skillID, resourcePath).path,
                                               resourcePath)].data), SniffLen)),
                   Readable |-> IsTextFile(DetectMimeType(Base(resourcePath),
                       ReadPrefix(Bytes(f[Join(GetSkillResourceInfo(f, skillID, resourcePath).path,
                                               resourcePath)].data), SniffLen)))]]

\* the resource files of the family: names with an extension the MIME
\* table knows as text, one it knows as an image, none, and ".b"
ResourceNames == {"x.css", "x.png", "data", "a..b"}
Contents == {"v0", "bin", "latenul", ""}
ScriptOptions ==
    {NoFiles} \cup { <<"skills", "demo", "scripts", n>> :> d : n \in ResourceNames, d \in Contents }
AssetOptions ==
    {NoFiles} \cup { <<"skills", "demo", "assets", "sub", n>> :> d :
                        n \in {"x.css", "data"}, d \in {"v0", "bin"} }
ResourceTrees ==
    { TreeOf((<<"skills", "demo", "SKILL.md">> :> "demo") @@ a @@ b) @@ EmptyTree :
        a \in ScriptOptions, b \in AssetOptions }

\* the identifiers and paths the callers ask for
ResourceIDs == { <<"demo">>, <<"tool">> }
ResourcePathRequests ==
    { <<"scripts", n>> : n \in ResourceNames } \cup { <<"assets", "sub", "x.css">>, <<"assets", "sub">> }

\* the result of the last call
Answer(op, id, resourcePath, r) ==
    [op |-> op, id |-> id, resourcePath |-> resourcePath, ok |-> r.ok, out |-> r.out]

ListResourcesCall(id) ==
    /\ got' = Answer("ListSkillResources", id, <<>>, ListResources(fs, id))
    /\ UNCHANGED <<lifeVars, pathVars, catalogVars, syncerVars, listed>>

ReadResourceCall(id, resourcePath) ==
    /\ got' = Answer("ReadSkillResource", id, resourcePath, ReadResource(fs, id, resourcePath))
    /\ UNCHANGED <<lifeVars, pathVars, catalogVars, syncerVars, listed>>

ResourceInfoCall(id, resourcePath) ==
    /\ got' = Answer("GetSkillResourceInfo", id, resourcePath, ResourceInfo(fs, id, resourcePath))
    /\ UNCHANGED <<lifeVars, pathVars, catalogVars, syncerVars, listed>>

InitResource ==
    /\ LifeIdle
    /\ PathIdle
    /\ SyncerIdle
    /\ TreeIdle
    /\ fs \in ResourceTrees
    /\ gitRepos = <<>>
    /\ repos = <<>>
    /\ index = {}
    /\ last = NoRequest

NextResource ==
    \/ \E id \in ResourceIDs : ListResourcesCall(id)
    \/ \E id \in ResourceIDs, rp \in ResourcePathRequests : ReadResourceCall(id, rp)
    \/ \E id \in ResourceIDs, rp \in ResourcePathRequests : ResourceInfoCall(id, rp)

SpecResource == InitResource /\ [][NextResource]_vars

\* the bytes of the file a successful call on resourcePath looked at
FileBytes(id, resourcePath) == Bytes(fs[skillsDir \o id \o resourcePath].data)

\* C31: a resource with a NUL byte among its first 512 bytes is read as
\* base64 and described as not text-readable whatever its extension; read
\* reports utf-8 exactly when the resource is classified text, and list and
\* info report the same flag for the file.
C31_NulMeansBinary ==
    /\ (got # <<>> /\ got.op = "ReadSkillResource" /\ got.ok) =>
          /\ ~isTextContent(FileBytes(got.id, got.resourcePath)) => got.out.Encoding = "base64"
          /\ got.out.Encoding = "utf-8" <=> IsTextFile(got.out.MimeType)
          /\ ResourceInfo(fs, got.id, got.resourcePath).ok
          /\ ResourceInfo(fs, got.id, got.resourcePath).out.Readable
                = (got.out.Encoding = "utf-8")
          /\ \A r \in ListResources(fs, got.id).out :
                r.Path = got.resourcePath => r.Readable = (got.out.Encoding = "utf-8")
    /\ (got # <<>> /\ got.op = "GetSkillResourceInfo" /\ got.ok) =>
          (~isTextContent(FileBytes(got.id, got.resourcePath)) => ~got.out.Readable)

\* C39: every resource ListSkillResources returns has a path that
\* ValidateResourcePath accepts, and ReadSkillResource and
\* GetSkillResourceInfo succeed on it, the latter with the same type, name,
\* size and readable flag.
C39_ListedResourcesReadable ==
    (got # <<>> /\ got.op = "ListSkillResources" /\ got.ok) =>
        \A r \in got.out :
            /\ ValidateResourcePath(JoinChars(r.Path)) = "ok"
            /\ ReadResource(fs, got.id, r.Path).ok
            /\ ResourceInfo(fs, got.id, r.Path).ok
            /\ ResourceInfo(fs, got.id, r.Path).out.Type = r.Type
            /\ ResourceInfo(fs, got.id, r.Path).out.Name = r.Name
            /\ ResourceInfo(fs, got.id, r.Path).out.Size = r.Size
            /\ ResourceInfo(fs, got.id, r.Path).out.Readable = r.Readable

-----------------------------------------------------------------------------
(* SpecConverge: the periodicSync goroutine of a started syncer ticks      *)
(* while create-skill and delete-skill requests are served.  Start has     *)
(* returned without error: the configured mirror is cloned, the index is   *)
(* built, worker1 waits in its select.                                     *)

ConvergeNames == { <<"demo">> }

InitConverge ==
    /\ TreeIdle
    /\ PathIdle
    /\ ctx = "live"
    /\ life = [p \in LifeProcs |->
                 IF p = "main" THEN [NotSpawned EXCEPT !.at = "idle", !.n = 1]
                 ELSE IF p = "worker1" THEN [NotSpawned EXCEPT !.at = "select", !.initial = 1]
                 ELSE NotSpawned]
    /\ mu = Unlocked
    /\ task = [p \in LifeProcs |-> Idle]
    /\ repos = <<Url1>>
    /\ fs = syncRepo(EmptyTree, Url1, "updated", "flat").fs
    /\ gitRepos = RepoNames(repos)
    /\ index = RebuildIndex(fs, gitRepos, {})
    /\ last = NoRequest

NextConverge ==
    \/ Stop
    \/ \E w \in Workers :
        \/ Tick(w)
        \/ SelectTick(w)
        \/ SelectDone(w)
        \/ PassReturns(w)
        \/ RLock(w)
        \/ CopyRepos(w)
        \/ \E o \in {"updated", "error"} : SyncReturns(w, o, "flat")
        \/ \E indexOk \in BOOLEAN : Callback(w, indexOk)
    \/ \E name \in ConvergeNames, fault \in Faults : createSkill(name, "plain", fault)
    \/ \E name \in ConvergeNames, indexOk \in BOOLEAN : deleteSkill(name, indexOk)

SpecConverge == InitConverge /\ [][NextConverge]_vars

\* a step of the periodicSync goroutine w
WorkerStep(w) ==
    \/ Tick(w)
    \/ SelectTick(w)
    \/ RLock(w)
    \/ CopyRepos(w)
    \/ \E o \in {"updated", "error"} : SyncReturns(w, o, "flat")
    \/ \E indexOk \in BOOLEAN : Callback(w, indexOk)
    \/ PassReturns(w)

\* w can take a step: the guards of the steps of WorkerStep
WorkerReady(w) ==
    \/ (w \in Running /\ ~life[w].tick)
    \/ (life[w].at = "select" /\ life[w].tick)
    \/ (task[w].pc = "rlock" /\ mu.w = None)
    \/ task[w].pc \in {"copy", "sync", "callback"}
    \/ (life[w].at = "pass" /\ task[w].pc = "done")

\* weak fairness of the steps of each periodicSync goroutine, with the
\* enabling condition written out: the ticker fires every five minutes, the
\* runtime schedules a runnable goroutine, RLock is granted when no writer
\* holds the lock, and a clone, a pull and a rebuild return
FairConverge ==
    \A w \in Workers : []<>(~WorkerReady(w)) \/ []<><<WorkerStep(w)>>_vars

SpecConvergeFair == SpecConverge /\ FairConverge

\* a step that changes the tree, the mirror list or the enabled names
MutationStep == fs' # fs \/ repos' # repos \/ gitRepos' # gitRepos

\* a step in which a rebuild of the index returns an error
RebuildFailsStep ==
    \/ \E p \in LifeProcs : task[p].pc = "callback" /\ task'[p].result = "reindex"
    \/ (last' # last /\ last'.input = <<"reindex">>)

IndexConsistent == index = IDs(ListSkills(fs, gitRepos))

\* C33: while a periodicSync goroutine is running, if from some point on
\* no step changes the tree, the mirror list or the enabled names and no
\* rebuild fails, then under fair ticks the identifiers in the index
\* eventually are the identifiers ListSkills returns, and stay so.
C33_IndexConverges ==
    (<>[][~MutationStep /\ ~RebuildFailsStep]_vars /\ <>[](Running # {}))
        => <>[]IndexConsistent

\* C33 witness: a create-skill request wrote the skill and failed at its
\* rebuild, and a later pass of the running goroutine has made the index
\* hold the new skill
C33_Witness ==
    /\ last.op = "createSkill"
    /\ last.input = <<"reindex">>
    /\ Running # {}
    /\ life["worker1"].at = "select"
    /\ <<"demo">> \in index
    /\ IndexConsistent

-----------------------------------------------------------------------------
(* SpecEscape: identifiers with ".." segments are resolved on trees that   *)
(* hold the parent directory of the catalog root and what lies next to the *)
(* root.                                                                   *)

\* what lies outside the root: nothing, a manifest in the parent directory,
\* a skill directory next to the root
OutsideOptions ==
    { NoFiles,
      <<"SKILL.md">> :> "demo",
      (<<"tool", "SKILL.md">> :> "tool") @@ (<<"tool", "scripts", "x.txt">> :> "v0") }

InsideOptions ==
    { NoFiles,
      (<<"skills", "demo", "SKILL.md">> :> "demo")
          @@ (<<"skills", "demo", "scripts", "x.txt">> :> "v0") }

\* the trees, each with the parent directory <<>> of the root
EscapeTrees ==
    { TreeOf(i @@ o) @@ EmptyTree @@ (<<>> :> DirNode) :
        i \in InsideOptions, o \in OutsideOptions }

\* the identifiers "demo", "..", "../tool" and "../demo"
EscapeIDs == { <<"demo">>, <<"..">>, <<"..", "tool">>, <<"..", "demo">> }

InitEscape ==
    /\ LifeIdle
    /\ PathIdle
    /\ SyncerIdle
    /\ TreeIdle
    /\ fs \in EscapeTrees
    /\ gitRepos = <<>>
    /\ repos = <<>>
    /\ index = {}
    /\ last = NoRequest

NextEscape ==
    \/ \E id \in EscapeIDs : ReadSkillCall(id)
    \/ \E id \in EscapeIDs : ListSkillResourcesCall(id)
    \/ \E id \in EscapeIDs, rp \in ResourceRequests : ReadSkillResourceCall(id, rp)
    \/ \E id \in EscapeIDs, rp \in ResourceRequests : GetSkillResourceInfoCall(id, rp)
    \/ \E id \in EscapeIDs : ExportSkillCall(id)

SpecEscape == InitEscape /\ [][NextEscape]_vars

\* C34: whenever ReadSkill, ListSkillResources, ReadSkillResource,
\* GetSkillResourceInfo or ExportSkill succeeds on an identifier, the skill
\* directory it resolved lies below the catalog root.
C34_ResolvedInsideRoot ==
    (got # <<>> /\ got.ok) =>
        (IsPrefixPath(skillsDir, got.path) /\ got.path # skillsDir)

-----------------------------------------------------------------------------
(* SpecRebuild: RebuildIndex as the two calls it makes, ListSkills and     *)
(* then IndexSkills, with no lock around them.  The goroutine "request"    *)
(* serves create-skill and delete-skill requests, the goroutine "pass" is  *)
(* periodicSync at the callback of a syncAll pass.  A call of IndexSkills  *)
(* is one step: the steps of two IndexSkills calls are not interleaved.    *)

RebuildProcs == {"request", "pass"}

\* a goroutine outside RebuildIndex; skills is what its ListSkills returned,
\* n counts the requests it has served
Resting == [pc |-> "idle", skills |-> <<>>, n |-> 0]

\* createSkill up to its RebuildIndex: the directory and manifest are written
RequestWrites(name) ==
    /\ task["request"].pc = "idle"
    /\ task["request"].n < MaxRequests
    /\ WriteFile(MkdirAll(fs, Join(skillsDir, name)).fs,
                 Append(Join(skillsDir, name), ManifestName),
                 Frontmatter(name, "plain")).ok
    /\ fs' = WriteFile(MkdirAll(fs, Join(skillsDir, name)).fs,
                       Append(Join(skillsDir, name), ManifestName),
                       Frontmatter(name, "plain")).fs
    /\ task' = [task EXCEPT !["request"].pc = "list", !["request"].n = @ + 1]
    /\ UNCHANGED <<lifeVars, treeVars, pathVars, gitRepos, repos, index, last, mu>>

\* deleteSkill up to its RebuildIndex: the directory is removed
RequestRemoves(name) ==
    /\ task["request"].pc = "idle"
    /\ task["request"].n < MaxRequests
    /\ ReadSkill(fs, name).ok
    /\ ~ReadSkill(fs, name).ReadOnly
    /\ fs' = RemoveAll(fs, Join(skillsDir, name))
    /\ task' = [task EXCEPT !["request"].pc = "list", !["request"].n = @ + 1]
    /\ UNCHANGED <<lifeVars, treeVars, pathVars, gitRepos, repos, index, last, mu>>

\* syncAll has synced its snapshot and calls onUpdate
PassCallback ==
    /\ task["pass"].pc = "idle"
    /\ task' = [task EXCEPT !["pass"].pc = "list"]
    /\ UNCHANGED <<lifeVars, treeVars, pathVars, catalogVars, mu>>

\* RebuildIndex: skills, err := m.ListSkills()
RebuildLists(p) ==
    /\ task[p].pc = "list"
    /\ task' = [task EXCEPT ![p].pc = "submit", ![p].skills = ListSkills(fs, gitRepos)]
    /\ UNCHANGED <<lifeVars, treeVars, pathVars, catalogVars, mu>>

\* RebuildIndex: return m.searcher.IndexSkills(skills)
RebuildSubmits(p) ==
    /\ task[p].pc = "submit"
    /\ index' = IndexSkills(index, task[p].skills)
    /\ task' = [task EXCEPT ![p].pc = "done"]
    /\ UNCHANGED <<lifeVars, treeVars, pathVars, fs, gitRepos, repos, last, mu>>

\* the handler replies, the pass returns to the select of periodicSync
RebuildReturns(p) ==
    /\ task[p].pc = "done"
    /\ task' = [task EXCEPT ![p].pc = "idle", ![p].skills = <<>>]
    /\ UNCHANGED <<lifeVars, treeVars, pathVars, catalogVars, mu>>

InitRebuild ==
    /\ LifeIdle
    /\ TreeIdle
    /\ PathIdle
    /\ mu = Unlocked
    /\ task = [p \in RebuildProcs |-> Resting]
    /\ fs \in {EmptyTree, DemoTree}
    /\ repos = <<>>
    /\ gitRepos = <<>>
    /\ index = RebuildIndex(fs, gitRepos, {})
    /\ last = NoRequest

NextRebuild ==
    \/ \E name \in {<<"demo">>, <<"tool">>} : RequestWrites(name)
    \/ \E name \in {<<"demo">>, <<"tool">>} : RequestRemoves(name)
    \/ PassCallback
    \/ \E p \in RebuildProcs :
        \/ RebuildLists(p)
        \/ RebuildSubmits(p)
        \/ RebuildReturns(p)

SpecRebuild == InitRebuild /\ [][NextRebuild]_vars

\* C35: when no goroutine is inside RebuildIndex (every rebuild that
\* overlapped has finished and nothing has been written since), the index
\* holds exactly the identifiers ListSkills returns.
C35_OverlappingRebuilds ==
    (\A p \in RebuildProcs : task[p].pc \in {"idle", "done"}) => IndexConsistent

-----------------------------------------------------------------------------
(* SpecRemoval: a delete-mirror request runs next to a syncAll pass of     *)
(* periodicSync and a manual SyncRepo.  The request is the call of         *)
(* RemoveRepo (steps Lock and RemoveRepo of SpecSyncer) followed by the    *)
(* removal of the working directory; the syncs run through the steps of    *)
(* SpecSyncer.                                                             *)

\* the mirror the request removes
Removed == Url1

\* deleteGitRepo has found the URL for the id and calls RemoveRepo
DeleteCall(p) ==
    /\ p # "timer"
    /\ task[p].pc = "idle"
    /\ CallsMade < MaxCalls
    /\ last.op # "deleteGitRepo"
    /\ SeqContains(repos, Removed)
    /\ task' = [task EXCEPT ![p] =
                  [Idle EXCEPT !.op = "RemoveRepo", !.url = Removed, !.pc = "lock",
                               !.calls = task[p].calls + 1]]
    /\ UNCHANGED <<lifeVars, treeVars, pathVars, catalogVars, mu>>

\* deleteGitRepo after RemoveRepo has returned: the working directory is
\* removed, the enabled names are set from the list, the index is rebuilt
DeleteDirectory(p, indexOk) ==
    /\ task[p].op = "RemoveRepo"
    /\ task[p].pc = "done"
    /\ task' = [task EXCEPT ![p] = [Idle EXCEPT !.calls = task[p].calls]]
    /\ IF task[p].result # "ok"
       THEN /\ last' = Reply("deleteGitRepo", <<ExtractRepoName(task[p].url)>>, 500)
            /\ UNCHANGED <<fs, gitRepos, index>>
       ELSE /\ fs' = RemoveAll(fs, Join(skillsDir, <<ExtractRepoName(task[p].url)>>))
            /\ gitRepos' = RepoNames(repos)
            /\ index' = onUpdate(RemoveAll(fs, Join(skillsDir, <<ExtractRepoName(task[p].url)>>)),
                                 RepoNames(repos), index, indexOk)
            /\ last' = IF indexOk
                       THEN Reply("deleteGitRepo", <<ExtractRepoName(task[p].url)>>, 204)
                       ELSE ReindexFailed("deleteGitRepo", <<ExtractRepoName(task[p].url)>>, 500)
    /\ UNCHANGED <<lifeVars, treeVars, pathVars, repos, mu>>

\* a manual sync of the mirror is requested: SyncRepo is called
SyncOneCall(p) ==
    /\ p # "timer"
    /\ task[p].pc = "idle"
    /\ CallsMade < MaxCalls
    /\ task' = [task EXCEPT ![p] =
                  [Idle EXCEPT !.op = "SyncRepo", !.url = Removed, !.pc = "rlock",
                               !.calls = task[p].calls + 1]]
    /\ UNCHANGED <<lifeVars, treeVars, pathVars, catalogVars, mu>>

\* a call of the syncer returns to periodicSync or to the sync handler
SyncDone(p) ==
    /\ task[p].op \in {"syncAll", "SyncRepo"}
    /\ Return(p)

\* the server runs with the mirror, or with it and a second one, cloned
RemovalStarts == { <<Url1>>, <<Url2, Url1>> }

InitRemoval ==
    /\ LifeIdle
    /\ TreeIdle
    /\ PathIdle
    /\ SyncerIdle
    /\ repos \in RemovalStarts
    /\ fs = SyncEach(EmptyTree, repos, "updated", "flat")
    /\ gitRepos = RepoNames(repos)
    /\ index = RebuildIndex(fs, gitRepos, {})
    /\ last = NoRequest

NextRemoval ==
    \/ Call("timer", "syncAll")
    \/ \E p \in Procs :
        \/ DeleteCall(p)
        \/ SyncOneCall(p)
        \/ Lock(p)
        \/ RemoveRepo(p)
        \/ \E indexOk \in BOOLEAN : DeleteDirectory(p, indexOk)
        \/ RLock(p)
        \/ CopyRepos(p)
        \/ \E o \in {"updated", "error"} : SyncReturns(p, o, "flat")
        \/ \E indexOk \in BOOLEAN : Callback(p, indexOk)
        \/ SyncDone(p)

SpecRemoval == InitRemoval /\ [][NextRemoval]_vars

\* C36: once the delete-mirror request has completed and no call of the
\* syncer is in progress (every sync that was in flight has finished), the
\* working directory of the removed mirror does not exist.
C36_RemovedDirectoryStaysGone ==
    (/\ last.op = "deleteGitRepo"
     /\ last.status \in {204, 500}
     /\ ~SeqContains(repos, Removed)
     /\ \A p \in Procs : task[p].pc = "idle")
    => ~Exists(fs, Join(skillsDir, <<ExtractRepoName(Removed)>>))

=============================================================================
